---- MODULE Spec2Model ----
(***************************************************************************)
(* Model of onepagems: the content validator (SchemaValidator), the schema *)
(* parser (SchemaParser), the form field generator (FormGenerator), the    *)
(* file storage (FileStorage) and the session manager (AuthManager).       *)
(* Schemas and content are generic JSON values (Go's interface{} after     *)
(* json.Unmarshal); the operators below follow the Go functions of the     *)
(* same names.                                                             *)
(***************************************************************************)
EXTENDS Integers, Sequences, FiniteSets, TLC

VARIABLES schema,      \* *types.SchemaData held by validator / parser / generator
          content,     \* the decoded content instance handed to ValidateContent
          op,          \* the operation that produced the current outputs
          fieldName,   \* argument of ValidateFieldValue
          fieldValue,  \* argument of ValidateFieldValue
          result,      \* *ValidationResult returned by the validator
          crashed,     \* TRUE when the call ended in a Go panic
          mapOrder,    \* the order in which this run's range loops visit map keys
          analysis,    \* *SchemaAnalysis returned by ParseSchema
          parseErr,    \* error returned by ParseSchema, "" for nil
          form,        \* *GeneratedForm returned by GenerateForm
          formErr,     \* error returned by GenerateForm, "" for nil
          imageFields, \* FormGenerator.imageFields
          failures,    \* []ValidationRule returned by SchemaParser.ValidateFieldValue
          files,       \* the data directory: entries of one filename and its inodes
          calls,       \* per goroutine, the FileStorage call it is executing
          sessions,    \* AuthManager.sessions
          now,         \* the clock read by time.Now(), in hours
          issued,      \* the session IDs crypto/rand has produced so far
          revoked,     \* the session IDs logged out or rejected as expired so far
          authResult   \* what the latest AuthManager call returned

vars == <<schema, content, op, fieldName, fieldValue, result, crashed, mapOrder,
          analysis, parseErr, form, formErr, imageFields, failures,
          files, calls, sessions, now, issued, revoked, authResult>>

engineVars == <<schema, content, fieldName, fieldValue, result, crashed, mapOrder,
                analysis, parseErr, form, formErr, imageFields, failures>>
storageVars == <<files, calls>>
authVars == <<sessions, now, issued, revoked, authResult>>

-----------------------------------------------------------------------------
(* Generic JSON values: the dynamic types json.Unmarshal produces.  A      *)
(* number is a float64; the model keeps it exactly as a count of halves.   *)

Null == [kind |-> "null"]
B(b) == [kind |-> "bool", b |-> b]
NumH(h) == [kind |-> "num", h |-> h]
N(n) == NumH(2 * n)
S(s) == [kind |-> "str", s |-> s]
A(a) == [kind |-> "arr", a |-> a]
O(o) == [kind |-> "obj", o |-> o]

EmptyMap == [x \in {} |-> Null]

\* m[key].(string), m[key].(float64), ... : the comma-ok type assertions
HasKind(m, key, kind) == key \in DOMAIN m /\ m[key].kind = kind

-----------------------------------------------------------------------------
(* Characters and decimal text                                             *)

Digits == {"0", "1", "2", "3", "4", "5", "6", "7", "8", "9"}
Lower == {"a", "b", "c", "d", "e", "f", "g", "h", "i", "j", "k", "l", "m",
          "n", "o", "p", "q", "r", "s", "t", "u", "v", "w", "x", "y", "z"}
Upper == {"A", "B", "C", "D", "E", "F", "G", "H", "I", "J", "K", "L", "M",
          "N", "O", "P", "Q", "R", "S", "T", "U", "V", "W", "X", "Y", "Z"}
Letters == Lower \cup Upper

Ch(s, i) == SubSeq(s, i, i)

AllIn(s, set) == \A i \in 1..Len(s) : Ch(s, i) \in set

DigitVal(c) == CASE c = "0" -> 0 [] c = "1" -> 1 [] c = "2" -> 2 [] c = "3" -> 3
                 [] c = "4" -> 4 [] c = "5" -> 5 [] c = "6" -> 6 [] c = "7" -> 7
                 [] c = "8" -> 8 [] c = "9" -> 9

RECURSIVE DecVal(_)
DecVal(s) == IF Len(s) = 0 THEN 0
             ELSE 10 * DecVal(SubSeq(s, 1, Len(s) - 1)) + DigitVal(Ch(s, Len(s)))

\* first index of character c in s, 0 when absent
IndexOf(s, c) == IF \E i \in 1..Len(s) : Ch(s, i) = c
                 THEN CHOOSE i \in 1..Len(s) : Ch(s, i) = c /\ \A j \in 1..(i - 1) : Ch(s, j) # c
                 ELSE 0

\* strconv.ParseFloat(s, 64) for plain decimal text: [+-]digits[.digits].
\* A non-zero fraction is kept as one half, which preserves every
\* comparison the validator makes on it (ordering against whole bounds and
\* wholeness).
ParseFloat(s) ==
    LET signed == Len(s) > 0 /\ Ch(s, 1) \in {"+", "-"}
        neg == Len(s) > 0 /\ Ch(s, 1) = "-"
        body == IF signed THEN SubSeq(s, 2, Len(s)) ELSE s
        dot == IndexOf(body, ".")
        ip == IF dot = 0 THEN body ELSE SubSeq(body, 1, dot - 1)
        fp == IF dot = 0 THEN "" ELSE SubSeq(body, dot + 1, Len(body))
        ok == AllIn(ip, Digits) /\ AllIn(fp, Digits) /\ Len(ip) + Len(fp) > 0
        mag == 2 * DecVal(ip) + (IF \E i \in 1..Len(fp) : Ch(fp, i) # "0" THEN 1 ELSE 0)
    IN  [ok |-> ok, h |-> IF ok THEN (IF neg THEN 0 - mag ELSE mag) ELSE 0]

\* int(f): float64 to int conversion truncates toward zero
IntPart(h) == IF h >= 0 THEN h \div 2 ELSE 0 - ((0 - h) \div 2)

\* strconv-style shortest rendering of a float64, as fmt's %v prints it
FormatFloat(h) ==
    IF h % 2 = 0 THEN ToString(h \div 2)
    ELSE (IF h < 0 THEN "-" ELSE "") \o ToString(IntPart(IF h < 0 THEN 0 - h ELSE h)) \o ".5"

\* range over a Go map: the keys of m in the iteration order ord
RangeKeys(m, ord) == SelectSeq(ord, LAMBDA n : n \in DOMAIN m)

RECURSIVE JoinWith(_, _)
JoinWith(strs, sep) ==
    IF Len(strs) = 0 THEN ""
    ELSE IF Len(strs) = 1 THEN strs[1]
    ELSE strs[1] \o sep \o JoinWith(Tail(strs), sep)

-----------------------------------------------------------------------------
(* Bounds of the model and the universe of names                           *)

MaxLen == 2        \* largest minLength / maxLength a generated schema declares
MaxItems == 2      \* longest generated array value
MaxRegistered == 2 \* GenerateForm is called while the registry is shorter
MaxLogins == 2     \* successful logins, each drawing a new session ID
MaxTicks == 5      \* advances of the clock, half a session lifetime each

\* every map key of the generated schemas and contents, in byte order
\* (the order in which fmt prints the keys of a map)
SortedNames == <<"contact", "description", "email", "extra", "required", "tags",
                 "title">>
AllNames == {SortedNames[i] : i \in 1..Len(SortedNames)}

\* the iteration orders a range over a map may take
MapOrders == {SortedNames,
              <<"title", "tags", "required", "extra", "email", "description",
                "contact">>}

\* fmt.Sprintf("%v", v)
RECURSIVE Sprintv(_)
Sprintv(v) ==
    CASE v.kind = "null" -> "<nil>"
      [] v.kind = "bool" -> IF v.b THEN "true" ELSE "false"
      [] v.kind = "num" -> FormatFloat(v.h)
      [] v.kind = "str" -> v.s
      [] v.kind = "arr" ->
           "[" \o JoinWith([i \in 1..Len(v.a) |-> Sprintv(v.a[i])], " ") \o "]"
      [] v.kind = "obj" ->
           LET keys == RangeKeys(v.o, SortedNames)
           IN  "map[" \o JoinWith([i \in 1..Len(keys) |->
                                      keys[i] \o ":" \o Sprintv(v.o[keys[i]])], " ") \o "]"

-----------------------------------------------------------------------------
(* Format helpers of the validator                                         *)

RECURSIVE Split(_, _)
\* strings.Split(s, sep) for a one-character separator
Split(s, sep) ==
    LET i == IndexOf(s, sep)
    IN  IF i = 0 THEN <<s>>
        ELSE <<SubSeq(s, 1, i - 1)>> \o Split(SubSeq(s, i + 1, Len(s)), sep)

HexDigits == Digits \cup {"a", "b", "c", "d", "e", "f", "A", "B", "C", "D", "E", "F"}
EmailLocalChars == Letters \cup Digits \cup {".", "_", "%", "+", "-"}
EmailDomainChars == Letters \cup Digits \cup {".", "-"}
SchemeChars == Letters \cup Digits \cup {"+", ".", "-"}
Whitespace == {" "}

\* ^[a-zA-Z0-9._%+-]+@[a-zA-Z0-9.-]+\.[a-zA-Z]{2,}$
isValidEmail(email) ==
    \E i \in 2..Len(email) :
        /\ Ch(email, i) = "@"
        /\ AllIn(SubSeq(email, 1, i - 1), EmailLocalChars)
        /\ \E j \in (i + 2)..(Len(email) - 2) :
              /\ Ch(email, j) = "."
              /\ AllIn(SubSeq(email, i + 1, j - 1), EmailDomainChars)
              /\ AllIn(SubSeq(email, j + 1, Len(email)), Letters)

DaysIn(year, month) ==
    IF month \in {4, 6, 9, 11} THEN 30
    ELSE IF month = 2
         THEN (IF year % 4 = 0 /\ (year % 100 # 0 \/ year % 400 = 0) THEN 29 ELSE 28)
         ELSE 31

\* time.Parse("2006-01-02", date)
isValidDate(date) ==
    /\ Len(date) = 10
    /\ Ch(date, 5) = "-" /\ Ch(date, 8) = "-"
    /\ AllIn(SubSeq(date, 1, 4), Digits)
    /\ AllIn(SubSeq(date, 6, 7), Digits)
    /\ AllIn(SubSeq(date, 9, 10), Digits)
    /\ DecVal(SubSeq(date, 6, 7)) \in 1..12
    /\ DecVal(SubSeq(date, 9, 10)) \in
          1..DaysIn(DecVal(SubSeq(date, 1, 4)), DecVal(SubSeq(date, 6, 7)))

TwoDigitsUpTo(s, max) == Len(s) = 2 /\ AllIn(s, Digits) /\ DecVal(s) <= max

\* a zone of RFC 3339: Z or a signed hh:mm offset
isZone(z) ==
    \/ z = "Z"
    \/ /\ Len(z) = 6
       /\ Ch(z, 1) \in {"+", "-"}
       /\ TwoDigitsUpTo(SubSeq(z, 2, 3), 23)
       /\ Ch(z, 4) = ":"
       /\ TwoDigitsUpTo(SubSeq(z, 5, 6), 59)

\* time.Parse(time.RFC3339, datetime)
isValidDateTime(datetime) ==
    /\ Len(datetime) >= 20
    /\ isValidDate(SubSeq(datetime, 1, 10))
    /\ Ch(datetime, 11) = "T"
    /\ TwoDigitsUpTo(SubSeq(datetime, 12, 13), 23)
    /\ Ch(datetime, 14) = ":"
    /\ TwoDigitsUpTo(SubSeq(datetime, 15, 16), 59)
    /\ Ch(datetime, 17) = ":"
    /\ TwoDigitsUpTo(SubSeq(datetime, 18, 19), 59)
    /\ LET rest == SubSeq(datetime, 20, Len(datetime))
       IN  \/ isZone(rest)
           \/ /\ Ch(rest, 1) = "."
              /\ \E k \in 2..(Len(rest) - 1) :
                    /\ AllIn(SubSeq(rest, 2, k), Digits)
                    /\ isZone(SubSeq(rest, k + 1, Len(rest)))

\* ^[a-zA-Z][a-zA-Z0-9+.-]*://[^\s]+$
isValidURI(uri) ==
    \E i \in 2..(Len(uri) - 3) :
        /\ SubSeq(uri, i, i + 2) = "://"
        /\ Ch(uri, 1) \in Letters
        /\ AllIn(SubSeq(uri, 1, i - 1), SchemeChars)
        /\ \A j \in (i + 3)..Len(uri) : Ch(uri, j) \notin Whitespace

\* ^(\d{1,3}\.){3}\d{1,3}$ and every octet at most 255
isValidIPv4(ip) ==
    LET parts == Split(ip, ".")
    IN  /\ Len(parts) = 4
        /\ \A i \in 1..4 : /\ Len(parts[i]) \in 1..3
                           /\ AllIn(parts[i], Digits)
                           /\ DecVal(parts[i]) <= 255

\* ^([0-9a-fA-F]{1,4}:){7}[0-9a-fA-F]{1,4}$|^::1$|^::$
isValidIPv6(ip) ==
    \/ ip = "::1"
    \/ ip = "::"
    \/ LET parts == Split(ip, ":")
       IN  /\ Len(parts) = 8
           /\ \A i \in 1..8 : Len(parts[i]) \in 1..4 /\ AllIn(parts[i], HexDigits)

\* regexp.Compile succeeds on the pattern (the patterns the schemas use)
RegexpCompiles(pattern) ==
    CASE pattern = "^[a-z]+$" -> TRUE
      [] pattern = "^[0-9]+$" -> TRUE
      [] pattern = "[" -> FALSE
      [] pattern = "(" -> FALSE

\* regexp.MatchString(pattern, str) for a pattern that compiles
RegexpMatch(pattern, str) ==
    CASE pattern = "^[a-z]+$" -> Len(str) > 0 /\ AllIn(str, Lower)
      [] pattern = "^[0-9]+$" -> Len(str) > 0 /\ AllIn(str, Digits)

-----------------------------------------------------------------------------
(* SchemaValidator                                                         *)

\* ValidationDetailError (Message and Expected are not modelled)
Err(field, code, value, path) ==
    [Field |-> field, Code |-> code, Value |-> value, PropertyPath |-> path]

\* types.ValidationWarning
Warn(field, code) == [Field |-> field, Code |-> code]

NewResult == [Valid |-> TRUE, Errors |-> <<>>, Warnings |-> <<>>,
              FieldCount |-> 0, Summary |-> ""]

\* AddError that leaves result.Valid as it is
AddError_KeepValid(res, e) == [res EXCEPT !.Errors = Append(@, e)]

\* result.Valid = false; result.Errors = append(result.Errors, e)
AddError(res, e) == [res EXCEPT !.Valid = FALSE, !.Errors = Append(@, e)]

\* result.Warnings = append(result.Warnings, w)
AddWarning(res, w) == [res EXCEPT !.Warnings = Append(@, w)]

toFloat64(value) ==
    CASE value.kind = "num" -> [ok |-> TRUE, h |-> value.h]
      [] value.kind = "str" -> ParseFloat(value.s)
      [] OTHER -> [ok |-> FALSE, h |-> 0]

isNumber(value) ==
    CASE value.kind = "num" -> TRUE
      [] value.kind = "str" -> ParseFloat(value.s).ok
      [] OTHER -> FALSE

\* isInteger without the comparison against the truncated value
isInteger_AnyNumber(value) == isNumber(value)

\* num == float64(int64(num))
isInteger(value) == isNumber(value) /\ toFloat64(value).h % 2 = 0

validateType(value, expectedType) ==
    IF value.kind = "null" THEN TRUE
    ELSE CASE expectedType = "string" -> value.kind = "str"
           [] expectedType = "number" -> isNumber(value)
           [] expectedType = "integer" -> isInteger(value)
           [] expectedType = "boolean" -> value.kind = "bool"
           [] expectedType = "array" -> value.kind = "arr"
           [] expectedType = "object" -> value.kind = "obj"
           [] OTHER -> TRUE

\* validateStringField with the bounds taken as exclusive
validateStringField_Exclusive(name, value, schemaProp, fieldPath, res) ==
    LET n == Len(value.s)
        minLen(r) == IF /\ HasKind(schemaProp, "minLength", "num")
                        /\ n <= IntPart(schemaProp.minLength.h)
                     THEN AddError(r, Err(name, "min_length", N(n), fieldPath))
                     ELSE r
        maxLen(r) == IF /\ HasKind(schemaProp, "maxLength", "num")
                        /\ n >= IntPart(schemaProp.maxLength.h)
                     THEN AddError(r, Err(name, "max_length", N(n), fieldPath))
                     ELSE r
    IN  IF value.kind # "str" THEN res ELSE maxLen(minLen(res))

validateStringField(name, value, schemaProp, fieldPath, res) ==
    LET n == Len(value.s)
        minLen(r) == IF /\ HasKind(schemaProp, "minLength", "num")
                        /\ n < IntPart(schemaProp.minLength.h)
                     THEN AddError(r, Err(name, "min_length", N(n), fieldPath))
                     ELSE r
        maxLen(r) == IF /\ HasKind(schemaProp, "maxLength", "num")
                        /\ n > IntPart(schemaProp.maxLength.h)
                     THEN AddError(r, Err(name, "max_length", N(n), fieldPath))
                     ELSE r
    IN  IF value.kind # "str" THEN res ELSE maxLen(minLen(res))

validateNumberField(name, value, schemaProp, fieldPath, res) ==
    LET f == toFloat64(value)
        num == f.h
        bound(key) == schemaProp[key].h
        check(r, key, code, broken(_)) ==
            IF HasKind(schemaProp, key, "num") /\ broken(bound(key))
            THEN AddError(r, Err(name, code, NumH(num), fieldPath))
            ELSE r
        min(r) == check(r, "minimum", "minimum", LAMBDA b : num < b)
        max(r) == check(r, "maximum", "maximum", LAMBDA b : num > b)
        xmin(r) == check(r, "exclusiveMinimum", "exclusive_minimum", LAMBDA b : num <= b)
        xmax(r) == check(r, "exclusiveMaximum", "exclusive_maximum", LAMBDA b : num >= b)
        mult(r) == check(r, "multipleOf", "multiple_of", LAMBDA b : b > 0 /\ num % b # 0)
    IN  IF f.ok THEN mult(xmax(xmin(max(min(res))))) ELSE res

validateEnum(name, value, enumValues, fieldPath, res) ==
    IF \E i \in 1..Len(enumValues) : enumValues[i] = value
    THEN res
    ELSE AddError(res, Err(name, "enum", value, fieldPath))

validateFormat_AnyFormat(name, value, format, fieldPath, res) ==
    IF value.kind # "str" \/ value.s = "" THEN res
    ELSE AddError(res, Err(name, "format_" \o format, value, fieldPath))

validateFormat(name, value, format, fieldPath, res) ==
    IF value.kind # "str" \/ value.s = "" THEN res
    ELSE LET str == value.s
             code == CASE format = "email" /\ ~isValidEmail(str) -> "format_email"
                       [] format = "date" /\ ~isValidDate(str) -> "format_date"
                       [] format = "date-time" /\ ~isValidDateTime(str) -> "format_datetime"
                       [] format = "uri" /\ ~isValidURI(str) -> "format_uri"
                       [] format = "ipv4" /\ ~isValidIPv4(str) -> "format_ipv4"
                       [] format = "ipv6" /\ ~isValidIPv6(str) -> "format_ipv6"
                       [] OTHER -> ""
         IN  IF code = "" THEN res
             ELSE AddError(res, Err(name, code, value, fieldPath))

\* validatePattern reporting a pattern that does not compile as a mismatch
validatePattern_AsError(name, value, pattern, fieldPath, res) ==
    IF value.kind # "str" THEN res
    ELSE IF ~RegexpCompiles(pattern) \/ ~RegexpMatch(pattern, value.s)
         THEN AddError(res, Err(name, "pattern", value, fieldPath))
         ELSE res

validatePattern(name, value, pattern, fieldPath, res) ==
    IF value.kind # "str" THEN res
    ELSE IF ~RegexpCompiles(pattern) THEN AddWarning(res, Warn(name, "invalid_pattern"))
    ELSE IF ~RegexpMatch(pattern, value.s)
         THEN AddError(res, Err(name, "pattern", value, fieldPath))
         ELSE res

\* duplicates found by comparing the elements themselves
FirstDuplicate_DeepEqual(arr) ==
    LET dup(i) == \E j \in 1..(i - 1) : arr[j] = arr[i]
    IN  IF \E i \in 1..Len(arr) : dup(i)
        THEN CHOOSE i \in 1..Len(arr) : dup(i) /\ \A j \in 1..(i - 1) : ~dup(j)
        ELSE 0

\* the first index whose rendering equals that of an earlier element, or 0
FirstDuplicate(arr) ==
    LET dup(i) == \E j \in 1..(i - 1) : Sprintv(arr[j]) = Sprintv(arr[i])
    IN  IF \E i \in 1..Len(arr) : dup(i)
        THEN CHOOSE i \in 1..Len(arr) : dup(i) /\ \A j \in 1..(i - 1) : ~dup(j)
        ELSE 0

RECURSIVE validateField(_, _, _, _, _)
RECURSIVE validateObjectLoop(_, _, _, _, _)
RECURSIVE validateItemsLoop(_, _, _, _, _, _)

\* validateObject rejecting an undeclared field with an error
validateObjectLoop_Strict(keys, obj, path, schemaProps, res) ==
    IF Len(keys) = 0 THEN res
    ELSE LET fname == Head(keys)
             fieldPath == IF path # "" THEN path \o "." \o fname ELSE fname
             r1 == IF fname \in DOMAIN schemaProps
                   THEN (IF schemaProps[fname].kind = "obj"
                         THEN validateField(fname, obj[fname], schemaProps[fname].o,
                                            fieldPath, res)
                         ELSE res)
                   ELSE AddError(res, Err(fname, "additional_property", obj[fname], fieldPath))
         IN  validateObjectLoop(Tail(keys), obj, path, schemaProps, r1)

\* validateObject passing the bare field name on as the path
validateObjectLoop_NoPrefix(keys, obj, path, schemaProps, res) ==
    IF Len(keys) = 0 THEN res
    ELSE LET fname == Head(keys)
             fieldPath == fname
             r1 == IF fname \in DOMAIN schemaProps
                   THEN (IF schemaProps[fname].kind = "obj"
                         THEN validateField(fname, obj[fname], schemaProps[fname].o,
                                            fieldPath, res)
                         ELSE res)
                   ELSE AddWarning(res, Warn(fieldPath, "additional_property"))
         IN  validateObjectLoop(Tail(keys), obj, path, schemaProps, r1)

\* validateObject: the range loop over the remaining keys of obj
validateObjectLoop(keys, obj, path, schemaProps, res) ==
    IF Len(keys) = 0 THEN res
    ELSE LET fname == Head(keys)
             fieldPath == IF path # "" THEN path \o "." \o fname ELSE fname
             r1 == IF fname \in DOMAIN schemaProps
                   THEN (IF schemaProps[fname].kind = "obj"
                         THEN validateField(fname, obj[fname], schemaProps[fname].o,
                                            fieldPath, res)
                         ELSE res)
                   ELSE AddWarning(res, Warn(fieldPath, "additional_property"))
         IN  validateObjectLoop(Tail(keys), obj, path, schemaProps, r1)

validateObject(obj, path, schemaProps, res) ==
    validateObjectLoop(RangeKeys(obj, mapOrder), obj, path, schemaProps, res)

\* validateArrayField: the loop validating item i (1-based here) and the rest
validateItemsLoop(i, arr, name, items, fieldPath, res) ==
    IF i > Len(arr) THEN res
    ELSE LET suffix == "[" \o ToString(i - 1) \o "]"
             r1 == validateField(name \o suffix, arr[i], items, fieldPath \o suffix, res)
         IN  validateItemsLoop(i + 1, arr, name, items, fieldPath, r1)

validateArrayField(name, value, schemaProp, fieldPath, res) ==
    LET arr == value.a
        arrayLen == Len(arr)
        d == FirstDuplicate(arr)
        minItems(r) == IF /\ HasKind(schemaProp, "minItems", "num")
                          /\ arrayLen < IntPart(schemaProp.minItems.h)
                       THEN AddError(r, Err(name, "min_items", N(arrayLen), fieldPath))
                       ELSE r
        maxItems(r) == IF /\ HasKind(schemaProp, "maxItems", "num")
                          /\ arrayLen > IntPart(schemaProp.maxItems.h)
                       THEN AddError(r, Err(name, "max_items", N(arrayLen), fieldPath))
                       ELSE r
        unique(r) == IF /\ HasKind(schemaProp, "uniqueItems", "bool")
                        /\ schemaProp.uniqueItems.b
                        /\ d # 0
                     THEN AddError(r, Err(name, "unique_items", arr[d], fieldPath))
                     ELSE r
        items(r) == IF HasKind(schemaProp, "items", "obj")
                    THEN validateItemsLoop(1, arr, name, schemaProp.items.o, fieldPath, r)
                    ELSE r
    IN  IF value.kind # "arr" THEN res
        ELSE items(unique(maxItems(minItems(res))))

RECURSIVE validateNestedRequired(_, _, _, _, _)
\* validateNestedObject: the loop over the object's own required array
validateNestedRequired(required, objMap, name, fieldPath, res) ==
    IF Len(required) = 0 THEN res
    ELSE LET req == Head(required)
             r1 == IF req.kind = "str" /\ req.s \notin DOMAIN objMap
                   THEN AddError(res, Err(name \o "." \o req.s, "required", Null,
                                          fieldPath \o "." \o req.s))
                   ELSE res
         IN  validateNestedRequired(Tail(required), objMap, name, fieldPath, r1)

\* validateNestedObject running its required sweep a second time
validateNestedObject_TwoSweeps(name, value, schemaProp, fieldPath, res) ==
    LET objMap == value.o
        props(r) == IF HasKind(schemaProp, "properties", "obj")
                    THEN validateObject(objMap, fieldPath, schemaProp.properties.o, r)
                    ELSE r
        required(r) == IF HasKind(schemaProp, "required", "arr")
                       THEN validateNestedRequired(schemaProp.required.a, objMap, name,
                                                   fieldPath, r)
                       ELSE r
    IN  IF value.kind # "obj" THEN res ELSE required(required(props(res)))

validateNestedObject(name, value, schemaProp, fieldPath, res) ==
    LET objMap == value.o
        props(r) == IF HasKind(schemaProp, "properties", "obj")
                    THEN validateObject(objMap, fieldPath, schemaProp.properties.o, r)
                    ELSE r
        required(r) == IF HasKind(schemaProp, "required", "arr")
                       THEN validateNestedRequired(schemaProp.required.a, objMap, name,
                                                   fieldPath, r)
                       ELSE r
    IN  IF value.kind # "obj" THEN res ELSE required(props(res))

\* validateField without the return after the type error
validateField_NoSkip(name, value, schemaProp, fieldPath, res) ==
    LET fieldType == IF HasKind(schemaProp, "type", "str") THEN schemaProp.type.s
                     ELSE "string"
        present == value.kind # "null"
        typeError(r) == AddError(r, Err(name, "invalid_type", value, fieldPath))
        str(r) == IF fieldType = "string" /\ present
                  THEN validateStringField(name, value, schemaProp, fieldPath, r)
                  ELSE r
        num(r) == IF fieldType \in {"number", "integer"} /\ present
                  THEN validateNumberField(name, value, schemaProp, fieldPath, r)
                  ELSE r
        arr(r) == IF fieldType = "array" /\ present
                  THEN validateArrayField(name, value, schemaProp, fieldPath, r)
                  ELSE r
        obj(r) == IF fieldType = "object" /\ present
                  THEN validateNestedObject(name, value, schemaProp, fieldPath, r)
                  ELSE r
        enum(r) == IF HasKind(schemaProp, "enum", "arr") /\ Len(schemaProp.enum.a) > 0
                   THEN validateEnum(name, value, schemaProp.enum.a, fieldPath, r)
                   ELSE r
        format(r) == IF HasKind(schemaProp, "format", "str") /\ schemaProp.format.s # ""
                     THEN validateFormat(name, value, schemaProp.format.s, fieldPath, r)
                     ELSE r
        pattern(r) == IF HasKind(schemaProp, "pattern", "str") /\ schemaProp.pattern.s # ""
                      THEN validatePattern(name, value, schemaProp.pattern.s, fieldPath, r)
                      ELSE r
        checks(r) == pattern(format(enum(obj(arr(num(str(r)))))))
    IN  IF ~validateType(value, fieldType) THEN checks(typeError(res))
        ELSE checks(res)

validateField(name, value, schemaProp, fieldPath, res) ==
    LET fieldType == IF HasKind(schemaProp, "type", "str") THEN schemaProp.type.s
                     ELSE "string"
        present == value.kind # "null"
        typeError(r) == AddError(r, Err(name, "invalid_type", value, fieldPath))
        str(r) == IF fieldType = "string" /\ present
                  THEN validateStringField(name, value, schemaProp, fieldPath, r)
                  ELSE r
        num(r) == IF fieldType \in {"number", "integer"} /\ present
                  THEN validateNumberField(name, value, schemaProp, fieldPath, r)
                  ELSE r
        arr(r) == IF fieldType = "array" /\ present
                  THEN validateArrayField(name, value, schemaProp, fieldPath, r)
                  ELSE r
        obj(r) == IF fieldType = "object" /\ present
                  THEN validateNestedObject(name, value, schemaProp, fieldPath, r)
                  ELSE r
        enum(r) == IF HasKind(schemaProp, "enum", "arr") /\ Len(schemaProp.enum.a) > 0
                   THEN validateEnum(name, value, schemaProp.enum.a, fieldPath, r)
                   ELSE r
        format(r) == IF HasKind(schemaProp, "format", "str") /\ schemaProp.format.s # ""
                     THEN validateFormat(name, value, schemaProp.format.s, fieldPath, r)
                     ELSE r
        pattern(r) == IF HasKind(schemaProp, "pattern", "str") /\ schemaProp.pattern.s # ""
                      THEN validatePattern(name, value, schemaProp.pattern.s, fieldPath, r)
                      ELSE r
        checks(r) == pattern(format(enum(obj(arr(num(str(r)))))))
    IN  IF ~validateType(value, fieldType) THEN typeError(res)
        ELSE checks(res)

RECURSIVE validateRequiredLoop_ArrayToo(_, _, _)
\* validateRequiredLoop that also honours a required-name array
validateRequiredLoop_ArrayToo(keys, contentMap, res) ==
    IF Len(keys) = 0 THEN res
    ELSE LET propName == Head(keys)
             propData == schema.Properties[propName]
             r1 == IF /\ propData.kind = "obj"
                      /\ \/ HasKind(propData.o, "required", "bool")
                            /\ propData.o.required.b
                         \/ HasKind(propData.o, "required", "arr")
                      /\ propName \notin DOMAIN contentMap
                   THEN AddError(res, Err(propName, "required", Null, propName))
                   ELSE res
         IN  validateRequiredLoop_ArrayToo(Tail(keys), contentMap, r1)

RECURSIVE validateRequiredLoop(_, _, _)
\* validateRequiredFields: the range loop over the remaining schema properties
validateRequiredLoop(keys, contentMap, res) ==
    IF Len(keys) = 0 THEN res
    ELSE LET propName == Head(keys)
             propData == schema.Properties[propName]
             r1 == IF /\ propData.kind = "obj"
                      /\ HasKind(propData.o, "required", "bool")
                      /\ propData.o.required.b
                      /\ propName \notin DOMAIN contentMap
                   THEN AddError(res, Err(propName, "required", Null, propName))
                   ELSE res
         IN  validateRequiredLoop(Tail(keys), contentMap, r1)

validateRequiredFields(contentMap, res) ==
    validateRequiredLoop(RangeKeys(schema.Properties, mapOrder), contentMap, res)

\* reflect.TypeOf(v).String() of a decoded JSON value that is not nil
GoTypeName(v) ==
    CASE v.kind = "bool" -> "bool"
      [] v.kind = "num" -> "float64"
      [] v.kind = "str" -> "string"
      [] v.kind = "arr" -> "[]interface {}"
      [] v.kind = "obj" -> "map[string]interface {}"

\* the outcome of a call: a returned result, or a panic
Returned(res) == [panicked |-> FALSE, res |-> res]
Panicked == [panicked |-> TRUE, res |-> NewResult]

\* result.FieldCount and result.Summary, set before ValidateContent returns
Finish(res) ==
    [res EXCEPT !.FieldCount = Len(res.Errors) + Len(res.Warnings),
                !.Summary = IF res.Valid THEN "All validations passed"
                            ELSE ToString(Len(res.Errors)) \o " validation errors found"]

ValidateContent(c) ==
    IF schema.Type = "object"
    THEN IF c.kind # "obj"
         THEN \* reflect.TypeOf(content).String(): TypeOf(nil) is a nil Type
              IF c.kind = "null" THEN Panicked
              ELSE Returned([AddError(NewResult, Err("_root", "invalid_type",
                                                     S(GoTypeName(c)), ""))
                               EXCEPT !.Summary = "Content type validation failed"])
         ELSE Returned(Finish(validateRequiredFields(c.o,
                          validateObject(c.o, "", schema.Properties, NewResult))))
    ELSE Returned(Finish(NewResult))

\* result.Summary, set before ValidateFieldValue returns
FinishField(res) ==
    [res EXCEPT !.Summary =
        IF res.Valid THEN "Field validation passed"
        ELSE "Field validation failed with " \o ToString(Len(res.Errors)) \o " errors"]

ValidateFieldValue(name, value) ==
    Returned(FinishField(
        IF name \in DOMAIN schema.Properties
        THEN (IF schema.Properties[name].kind = "obj"
              THEN validateField(name, value, schema.Properties[name].o, name, NewResult)
              ELSE NewResult)
        ELSE AddWarning(NewResult, Warn(name, "unknown_field"))))

-----------------------------------------------------------------------------
(* SchemaParser (internal/schema_parser.go).  A nil pointer field of       *)
(* ParsedProperty (MinLength, Minimum, Items, a nil Properties map) is the *)
(* empty sequence and a set pointer is a one-element sequence.             *)

\* the nil *SchemaData
NilSchema == [nil |-> TRUE]

NoAnalysis == [nil |-> TRUE]

\* the nil *GeneratedForm
NoForm == [nil |-> TRUE]

\* fmt's %.2f on a float64
FormatFixed2(h) ==
    (IF h < 0 THEN "-" ELSE "") \o ToString(IntPart(IF h < 0 THEN 0 - h ELSE h))
        \o (IF h % 2 = 0 THEN ".00" ELSE ".50")

\* the loop of extractRequiredFields: the strings among the array's items
StringItems(arr) ==
    LET strs == SelectSeq(arr, LAMBDA v : v.kind = "str")
    IN  [i \in 1..Len(strs) |-> strs[i].s]

extractRequiredFields(schemaProps) ==
    IF HasKind(schema.Properties, "required", "arr")
    THEN StringItems(schema.Properties["required"].a)
    ELSE IF HasKind(schemaProps, "required", "arr")
    THEN StringItems(schemaProps["required"].a)
    ELSE <<>>

isRequired(name, requiredFields) ==
    \E i \in 1..Len(requiredFields) : requiredFields[i] = name

\* m[key] of a Go map: the nil interface when the key is missing
Index(m, key) == IF key \in DOMAIN m THEN m[key] ELSE Null

RECURSIVE parseProperty(_, _, _, _)
parseProperty(name, prop, path, requiredFields) ==
    LET parsedName == IF path # "" THEN path \o "." \o name ELSE name
        parsedType == IF HasKind(prop, "type", "str") THEN prop["type"].s ELSE "string"
        str(key) == IF HasKind(prop, key, "str") THEN prop[key].s ELSE ""
        int(key) == IF HasKind(prop, key, "num") THEN <<IntPart(prop[key].h)>> ELSE <<>>
        float(key) == IF HasKind(prop, key, "num") THEN <<prop[key].h>> ELSE <<>>
        list(key) == IF HasKind(prop, key, "arr") THEN prop[key].a ELSE <<>>
        items == IF parsedType = "array" /\ HasKind(prop, "items", "obj")
                 THEN <<parseProperty("items", prop["items"].o, parsedName, <<>>)>>
                 ELSE <<>>
        nestedRequired == extractRequiredFields("required" :> Index(prop, "required"))
        nested ==
            IF parsedType # "object" THEN <<>>
            ELSE IF ~HasKind(prop, "properties", "obj") THEN <<EmptyMap>>
            ELSE LET properties == prop["properties"].o
                 IN  <<[nestedName \in {k \in DOMAIN properties : properties[k].kind = "obj"} |->
                          parseProperty(nestedName, properties[nestedName].o,
                                        parsedName, nestedRequired)]>>
    IN  [Name |-> parsedName,
         Type |-> parsedType,
         Format |-> str("format"),
         Title |-> str("title"),
         Description |-> str("description"),
         Required |-> isRequired(name, requiredFields),
         Default |-> Index(prop, "default"),
         Enum |-> list("enum"),
         Pattern |-> str("pattern"),
         MinLength |-> int("minLength"),
         MaxLength |-> int("maxLength"),
         Minimum |-> float("minimum"),
         Maximum |-> float("maximum"),
         Items |-> items,
         Properties |-> nested,
         AdditionalProperties |->
             IF parsedType = "object" /\ HasKind(prop, "additionalProperties", "bool")
             THEN prop["additionalProperties"].b ELSE TRUE,
         Examples |-> list("examples"),
         Raw |-> prop]

\* a ValidationRule; Value is the rule's value as it is serialised
Rule(type, value, message, path) ==
    [Type |-> type, Value |-> value, Message |-> message, PropertyPath |-> path]

RECURSIVE extractValidationRules(_, _, _)
RECURSIVE extractNestedRules(_, _, _)

\* the range loop of extractValidationRules over prop.Properties
extractNestedRules(keys, properties, fullPath) ==
    IF keys = <<>> THEN <<>>
    ELSE extractValidationRules(Head(keys), properties[Head(keys)], fullPath)
           \o extractNestedRules(Tail(keys), properties, fullPath)

extractValidationRules(propertyName, prop, parentPath) ==
    LET fullPath == IF parentPath # "" THEN parentPath \o "." \o propertyName
                    ELSE propertyName
        field == "Field '" \o propertyName \o "' "
        when(cond, rule) == IF cond THEN <<rule>> ELSE <<>>
    IN  when(prop.Required,
             Rule("required", B(TRUE), field \o "is required", fullPath))
        \o (IF prop.MinLength # <<>>
            THEN <<Rule("minLength", N(prop.MinLength[1]),
                        field \o "must be at least " \o ToString(prop.MinLength[1])
                              \o " characters", fullPath)>>
            ELSE <<>>)
        \o (IF prop.MaxLength # <<>>
            THEN <<Rule("maxLength", N(prop.MaxLength[1]),
                        field \o "must be at most " \o ToString(prop.MaxLength[1])
                              \o " characters", fullPath)>>
            ELSE <<>>)
        \o (IF prop.Minimum # <<>>
            THEN <<Rule("minimum", NumH(prop.Minimum[1]),
                        field \o "must be at least " \o FormatFixed2(prop.Minimum[1]),
                        fullPath)>>
            ELSE <<>>)
        \o (IF prop.Maximum # <<>>
            THEN <<Rule("maximum", NumH(prop.Maximum[1]),
                        field \o "must be at most " \o FormatFixed2(prop.Maximum[1]),
                        fullPath)>>
            ELSE <<>>)
        \o when(prop.Pattern # "",
                Rule("pattern", S(prop.Pattern),
                     field \o "must match the required pattern", fullPath))
        \o when(prop.Format # "",
                Rule("format", S(prop.Format),
                     field \o "must be a valid " \o prop.Format, fullPath))
        \o when(Len(prop.Enum) > 0,
                Rule("enum", A(prop.Enum),
                     field \o "must be one of the allowed values", fullPath))
        \o <<Rule("type", S(prop.Type),
                  field \o "must be of type " \o prop.Type, fullPath)>>
        \o (IF prop.Type = "object" /\ prop.Properties # <<>>
            THEN extractNestedRules(RangeKeys(prop.Properties[1], mapOrder),
                                    prop.Properties[1], fullPath)
            ELSE <<>>)
        \o (IF prop.Type = "array" /\ prop.Items # <<>>
            THEN extractValidationRules("items", prop.Items[1], fullPath)
            ELSE <<>>)

NewAnalysis ==
    [TotalProperties |-> 0,
     RequiredFields |-> <<>>,
     OptionalFields |-> <<>>,
     PropertyTypes |-> EmptyMap,
     ValidationRules |-> <<>>,
     NestedObjects |-> <<>>,
     Arrays |-> <<>>,
     EnumFields |-> EmptyMap,
     FormattedFields |-> EmptyMap,
     Properties |-> EmptyMap]

\* m[key] = value on a Go map
Put(m, key, value) == [k \in DOMAIN m \cup {key} |-> IF k = key THEN value ELSE m[k]]

categorize_NoCount(acc, propName, parsedProp) ==
    [acc EXCEPT
        !.Properties = Put(@, propName, parsedProp),
        !.RequiredFields = IF parsedProp.Required THEN Append(@, propName) ELSE @,
        !.OptionalFields = IF parsedProp.Required THEN @ ELSE Append(@, propName),
        !.PropertyTypes = Put(@, propName, parsedProp.Type),
        !.ValidationRules = @ \o extractValidationRules(propName, parsedProp, "")]

\* the body of ParseSchema's loop for an entry that is an object
categorize(acc, propName, parsedProp) ==
    [acc EXCEPT
        !.Properties = Put(@, propName, parsedProp),
        !.TotalProperties = @ + 1,
        !.RequiredFields = IF parsedProp.Required THEN Append(@, propName) ELSE @,
        !.OptionalFields = IF parsedProp.Required THEN @ ELSE Append(@, propName),
        !.PropertyTypes = Put(@, propName, parsedProp.Type),
        !.NestedObjects = IF parsedProp.Type = "object" THEN Append(@, propName) ELSE @,
        !.Arrays = IF parsedProp.Type = "array" THEN Append(@, propName) ELSE @,
        !.EnumFields = IF Len(parsedProp.Enum) > 0
                       THEN Put(@, propName, parsedProp.Enum) ELSE @,
        !.FormattedFields = IF parsedProp.Format # ""
                            THEN Put(@, propName, parsedProp.Format) ELSE @,
        !.ValidationRules = @ \o extractValidationRules(propName, parsedProp, "")]

RECURSIVE ParseSchemaLoop(_, _, _)
ParseSchemaLoop_CountAll(keys, requiredFields, acc) ==
    IF keys = <<>> THEN acc
    ELSE LET propName == Head(keys)
             propData == schema.Properties[propName]
         IN  IF propData.kind # "obj"
             THEN ParseSchemaLoop(Tail(keys), requiredFields,
                      [acc EXCEPT !.TotalProperties = @ + 1,
                                       !.PropertyTypes = Put(@, propName, "string")])
             ELSE ParseSchemaLoop(Tail(keys), requiredFields,
                      categorize(acc, propName,
                          parseProperty(propName, propData.o, "", requiredFields)))

\* the range loop of ParseSchema over sp.schema.Properties
ParseSchemaLoop(keys, requiredFields, acc) ==
    IF keys = <<>> THEN acc
    ELSE LET propName == Head(keys)
             propData == schema.Properties[propName]
         IN  IF propData.kind # "obj"
             THEN ParseSchemaLoop(Tail(keys), requiredFields, acc)
             ELSE ParseSchemaLoop(Tail(keys), requiredFields,
                      categorize(acc, propName,
                          parseProperty(propName, propData.o, "", requiredFields)))

\* the pair (analysis, err) ParseSchema returns
ParseSchema ==
    IF schema = NilSchema
    THEN [analysis |-> NoAnalysis, err |-> "schema is nil"]
    ELSE [analysis |-> ParseSchemaLoop(RangeKeys(schema.Properties, mapOrder),
                                       extractRequiredFields(schema.Properties),
                                       NewAnalysis),
          err |-> ""]

\* the error GetFieldMetadata returns, "" for nil
GetFieldMetadata(name) ==
    LET parsed == ParseSchema
    IN  IF parsed.err # "" THEN parsed.err
        ELSE IF name \in DOMAIN parsed.analysis.Properties THEN ""
        ELSE "field '" \o name \o "' not found in schema"

\* strings.HasPrefix
HasPrefix(str, prefix) ==
    Len(str) >= Len(prefix) /\ SubSeq(str, 1, Len(prefix)) = prefix

GetValidationRulesForField(name) ==
    SelectSeq(ParseSchema.analysis.ValidationRules,
              LAMBDA rule : \/ rule.PropertyPath = name
                            \/ HasPrefix(rule.PropertyPath, name \o "."))

\* SchemaParser.checkType; toFloat64 succeeds on a decoded JSON number only
checkType(value, expectedType) ==
    IF value = Null THEN TRUE
    ELSE CASE expectedType = "string" -> value.kind = "str"
           [] expectedType = "number" -> value.kind = "num"
           [] expectedType = "integer" -> value.kind = "num" /\ value.h % 2 = 0
           [] expectedType = "boolean" -> value.kind = "bool"
           [] expectedType = "array" -> value.kind = "arr"
           [] expectedType = "object" -> value.kind = "obj"
           [] OTHER -> TRUE

validateSingleRule(rule, value) ==
    CASE rule.Type = "required" -> value # Null /\ value # S("")
      [] rule.Type = "type" -> checkType(value, rule.Value.s)
      [] rule.Type = "minLength" ->
            value.kind = "str" /\ Len(value.s) >= IntPart(rule.Value.h)
      [] rule.Type = "maxLength" ->
            value.kind = "str" /\ Len(value.s) <= IntPart(rule.Value.h)
      [] rule.Type = "minimum" -> value.kind = "num" /\ value.h >= rule.Value.h
      [] rule.Type = "maximum" -> value.kind = "num" /\ value.h <= rule.Value.h
      [] rule.Type = "enum" -> \E i \in 1..Len(rule.Value.a) : value = rule.Value.a[i]
      [] OTHER -> TRUE

\* SchemaParser.ValidateFieldValue
ParserValidateFieldValue(name, value) ==
    IF GetFieldMetadata(name) # "" THEN <<>>
    ELSE SelectSeq(GetValidationRulesForField(name),
                   LAMBDA rule : ~validateSingleRule(rule, value))

-----------------------------------------------------------------------------
(* FormGenerator (internal/managers/form_generator.go).  The generator's   *)
(* steps work on gen = [field, imageFields]: the FormField under           *)
(* construction and the generator's image-field registry.                  *)

UpperLetters == "ABCDEFGHIJKLMNOPQRSTUVWXYZ"
LowerLetters == "abcdefghijklmnopqrstuvwxyz"

\* strings.ToLower / strings.ToUpper on ASCII text
ToLower(s) ==
    LET low(c) == IF c \in Upper THEN Ch(LowerLetters, IndexOf(UpperLetters, c)) ELSE c
    IN  JoinWith([i \in 1..Len(s) |-> low(Ch(s, i))], "")

ToUpper(s) ==
    LET up(c) == IF c \in Lower THEN Ch(UpperLetters, IndexOf(LowerLetters, c)) ELSE c
    IN  JoinWith([i \in 1..Len(s) |-> up(Ch(s, i))], "")

\* strings.Contains
Contains(s, substr) ==
    \E i \in 1..(Len(s) - Len(substr) + 1) : SubSeq(s, i, i + Len(substr) - 1) = substr

\* strings.Count(s, ".")
CountDots(s) == Cardinality({i \in 1..Len(s) : Ch(s, i) = "."})

\* fmt's %.0f on a float64: a half rounds to the even neighbour
FormatFixed0(h) ==
    LET mag == IF h < 0 THEN 0 - h ELSE h
        floor == mag \div 2
        rounded == IF mag % 2 = 0 \/ floor % 2 = 0 THEN floor ELSE floor + 1
    IN  (IF h < 0 THEN "-" ELSE "") \o ToString(rounded)

\* prop[key].(string) with the ok result dropped: "" unless a string
StringOf(prop, key) == IF HasKind(prop, key, "str") THEN prop[key].s ELSE ""

\* the keyword loops of isTextAreaField, isImageField and isRichTextField
HasKeyword(prop, keywords) ==
    \E keyword \in keywords :
       \/ Contains(ToLower(StringOf(prop, "title")), keyword)
       \/ Contains(ToLower(StringOf(prop, "description")), keyword)

isTextAreaField(prop) ==
    \/ HasKeyword(prop, {"content", "description", "text", "message", "body", "summary"})
    \/ HasKind(prop, "maxLength", "num") /\ prop["maxLength"].h > 2 * 100

isImageField(prop) ==
    HasKeyword(prop, {"image", "photo", "picture", "avatar", "logo", "banner", "background"})

isRichTextField(prop) ==
    \/ StringOf(prop, "format") \in {"html", "richtext"}
    \/ HasKeyword(prop, {"html", "rich", "formatted", "wysiwyg"})

convertEnumToOptions(enum) == [i \in 1..Len(enum) |-> Sprintv(enum[i])]

formatFieldLabel(name) ==
    LET parts == Split(name, ".")
        lastPart == parts[Len(parts)]
        words == Split(lastPart, "_")
        cap(word) == IF Len(word) > 0
                     THEN ToUpper(SubSeq(word, 1, 1)) \o ToLower(SubSeq(word, 2, Len(word)))
                     ELSE word
    IN  JoinWith([i \in 1..Len(words) |-> cap(words[i])], " ")

formatNestedLabel(name) == "  " \o formatFieldLabel(name)

getFieldPriority(field) ==
    IF field.Name = "title" THEN 1
    ELSE IF field.Name = "description" THEN 2
    ELSE IF ~Contains(field.Name, ".") THEN 10
    ELSE 100 + (CountDots(field.Name) * 10)

NewFormField(fullName) ==
    [Name |-> fullName, Type |-> "text", Label |-> "", Required |-> FALSE,
     Placeholder |-> "", Options |-> <<>>, Value |-> Null, Format |-> "",
     Description |-> ""]

extractBasicProperties(gen, displayName, prop) ==
    [gen EXCEPT
        !.field.Label = IF HasKind(prop, "title", "str") THEN prop["title"].s
                        ELSE formatFieldLabel(displayName),
        !.field.Description = IF HasKind(prop, "description", "str")
                              THEN prop["description"].s ELSE @,
        !.field.Placeholder = IF HasKind(prop, "description", "str") /\ @ = ""
                              THEN prop["description"].s ELSE @,
        !.field.Value = IF "default" \in DOMAIN prop THEN prop["default"] ELSE @]

handleStringField(gen, format, prop) ==
    [gen EXCEPT
        !.field.Type =
            IF format \in {"email", "password", "textarea", "url", "tel", "date",
                           "datetime-local", "time", "color", "image"}
            THEN format
            ELSE IF isTextAreaField(prop) THEN "textarea" ELSE "text",
        !.imageFields = IF format = "image" THEN Append(@, gen.field.Name) ELSE @,
        !.field.Format = format]

handleArrayField(gen, prop) ==
    LET hasItems == HasKind(prop, "items", "obj")
        items == prop["items"].o
        typed == hasItems /\ HasKind(items, "type", "str")
        multi == typed /\ items["type"].s = "string" /\ HasKind(items, "enum", "arr")
    IN  [gen EXCEPT
            !.field.Type = IF multi THEN "multiselect" ELSE "array",
            !.field.Format = IF typed THEN items["type"].s ELSE @,
            !.field.Options = IF multi THEN convertEnumToOptions(items["enum"].a) ELSE @]

extractTypeAndFormat(gen, prop) ==
    LET fieldType == StringOf(prop, "type")
        format == StringOf(prop, "format")
    IN  CASE fieldType = "string" -> handleStringField(gen, format, prop)
          [] fieldType = "number" -> [gen EXCEPT !.field.Type = "number"]
          [] fieldType = "integer" ->
               [gen EXCEPT !.field.Type = "number", !.field.Format = "integer"]
          [] fieldType = "boolean" -> [gen EXCEPT !.field.Type = "checkbox"]
          [] fieldType = "array" -> handleArrayField(gen, prop)
          [] fieldType = "object" -> [gen EXCEPT !.field.Type = "object"]
          [] OTHER -> [gen EXCEPT !.field.Type = "text"]

extractValidationConstraints(gen, prop) ==
    LET isNumberField == gen.field.Type = "number"
        withMinimum(ph) ==
            IF isNumberField /\ HasKind(prop, "minimum", "num") /\ ph = ""
            THEN "Minimum: " \o FormatFixed0(prop["minimum"].h) ELSE ph
        withMaximum(ph) ==
            IF isNumberField /\ HasKind(prop, "maximum", "num")
            THEN (IF ph = "" THEN "Maximum: " \o FormatFixed0(prop["maximum"].h)
                  ELSE ph \o ", Maximum: " \o FormatFixed0(prop["maximum"].h))
            ELSE ph
        required(r) == IF HasKind(prop, "required", "bool") THEN prop["required"].b ELSE r
        minLength(r) == IF HasKind(prop, "minLength", "num")
                        THEN r \/ prop["minLength"].h > 0 ELSE r
    IN  [gen EXCEPT
            !.field.Required = minLength(required(@)),
            !.field.Placeholder = withMaximum(withMinimum(@))]

extractEnumOptions(gen, prop) ==
    IF HasKind(prop, "enum", "arr")
    THEN [gen EXCEPT !.field.Type = "select",
                     !.field.Options = convertEnumToOptions(prop["enum"].a)]
    ELSE gen

handleSpecialFieldTypes(gen, prop) ==
    LET image == isImageField(prop) /\ gen.field.Type = "text"
    IN  [gen EXCEPT
            !.imageFields = IF image THEN Append(@, gen.field.Name) ELSE @,
            !.field.Type = IF isRichTextField(prop) THEN "richtext"
                           ELSE IF image THEN "image" ELSE @]

createFormField(fullName, displayName, prop, isNested, registry) ==
    LET start == [field |-> NewFormField(fullName), imageFields |-> registry]
        nestedLabel(gen) ==
            IF isNested THEN [gen EXCEPT !.field.Label = formatNestedLabel(displayName)]
            ELSE gen
    IN  nestedLabel(
          handleSpecialFieldTypes(
            extractEnumOptions(
              extractValidationConstraints(
                extractTypeAndFormat(
                  extractBasicProperties(start, displayName, prop),
                  prop),
                prop),
              prop),
            prop))

RECURSIVE generateFormFields(_, _, _, _)
RECURSIVE generateFieldsLoop(_, _, _, _, _)

\* the range loop of generateFormFields over properties; out holds the
\* fields appended so far and the registry
generateFieldsLoop(keys, prefix, properties, isNested, out) ==
    IF keys = <<>> THEN out
    ELSE LET fieldName_ == Head(keys)
             propData == properties[fieldName_]
             fullFieldName == IF prefix # "" THEN prefix \o "." \o fieldName_
                              ELSE fieldName_
             descend(gen) ==
                 IF gen.field.Type = "object" /\ HasKind(propData.o, "properties", "obj")
                 THEN LET nestedOut == generateFormFields(fullFieldName,
                                           propData.o["properties"].o, TRUE,
                                           gen.imageFields)
                      IN  [fields |-> <<gen.field>> \o nestedOut.fields,
                           imageFields |-> nestedOut.imageFields]
                 ELSE [fields |-> <<gen.field>>, imageFields |-> gen.imageFields]
             append(one) == [fields |-> out.fields \o one.fields,
                             imageFields |-> one.imageFields]
         IN  IF propData.kind # "obj"
             THEN generateFieldsLoop(Tail(keys), prefix, properties, isNested, out)
             ELSE generateFieldsLoop(Tail(keys), prefix, properties, isNested,
                      append(descend(createFormField(fullFieldName, fieldName_,
                                         propData.o, isNested, out.imageFields))))

generateFormFields(prefix, properties, isNested, registry) ==
    generateFieldsLoop(RangeKeys(properties, mapOrder), prefix, properties, isNested,
                       [fields |-> <<>>, imageFields |-> registry])

\* one pass of the insertion sort: x moves towards the front while it is
\* less than its predecessor
RECURSIVE InsertSorted(_, _)
InsertSorted(sorted, x) ==
    IF sorted # <<>> /\ getFieldPriority(x) < getFieldPriority(sorted[Len(sorted)])
    THEN Append(InsertSorted(SubSeq(sorted, 1, Len(sorted) - 1), x), sorted[Len(sorted)])
    ELSE Append(sorted, x)

\* insertionSort of the sort package, on a whole slice
RECURSIVE insertionSort(_)
insertionSort(fields) ==
    IF fields = <<>> THEN <<>>
    ELSE InsertSorted(insertionSort(SubSeq(fields, 1, Len(fields) - 1)),
                      fields[Len(fields)])

\* slices up to this length are sorted by insertion alone
maxInsertion == 12

\* the less function GenerateForm hands to sort.Slice, and the swap
Less(data, i, j) == getFieldPriority(data[i]) < getFieldPriority(data[j])
Swap(data, i, j) == [data EXCEPT ![i] = data[j], ![j] = data[i]]

\* median of the positions a, b, c with the number of swaps order2 made
median(data, a, b, c) ==
    LET s1 == IF Less(data, b, a) THEN [a |-> b, b |-> a, n |-> 1]
              ELSE [a |-> a, b |-> b, n |-> 0]
        s2 == IF Less(data, c, s1.b) THEN [b |-> c, n |-> s1.n + 1]
              ELSE [b |-> s1.b, n |-> s1.n]
        s3 == IF Less(data, s2.b, s1.a) THEN [b |-> s1.a, n |-> s2.n + 1]
              ELSE [b |-> s2.b, n |-> s2.n]
    IN  [pivot |-> s3.b, swaps |-> s3.n]

\* choosePivot for a slice of 8 to 49 elements: the median of the
\* elements at the three quarter points
choosePivot(data) ==
    LET quarter == Len(data) \div 4
    IN  median(data, quarter + 1, quarter * 2 + 1, quarter * 3 + 1)

\* partialInsertionSort on a slice shorter than 50 elements: succeeds only
\* when the slice is in order already, and moves nothing
partialInsertionSort(data) == \A i \in 2..Len(data) : ~Less(data, i, i - 1)

\* the scan loops of partition; the pivot sits at position 1
SkipLess(data, i, j) ==
    CHOOSE x \in i..(j + 1) :
       /\ x > j \/ ~Less(data, x, 1)
       /\ \A y \in i..(x - 1) : Less(data, y, 1)
SkipNotLess(data, i, j) ==
    CHOOSE x \in (i - 1)..j :
       /\ x < i \/ Less(data, x, 1)
       /\ \A y \in (x + 1)..j : ~Less(data, y, 1)

RECURSIVE partitionLoop(_, _, _)
partitionLoop(data, i, j) ==
    LET i2 == SkipLess(data, i, j)
        j2 == SkipNotLess(data, i2, j)
    IN  IF i2 > j2 THEN [data |-> Swap(data, j2, 1), mid |-> j2]
        ELSE partitionLoop(Swap(data, i2, j2), i2 + 1, j2 - 1)

partition(data, pivot) == partitionLoop(Swap(data, 1, pivot), 2, Len(data))

\* pdqsort on a slice of at most 13 elements, the longest generated here:
\* after one partition both sides are short enough for insertionSort
pdqsort(data) ==
    IF Len(data) <= maxInsertion THEN insertionSort(data)
    ELSE LET chosen == choosePivot(data)
             parted == partition(data, chosen.pivot)
         IN  IF chosen.swaps = 0 /\ partialInsertionSort(data) THEN data
             ELSE insertionSort(SubSeq(parted.data, 1, parted.mid - 1))
                  \o <<parted.data[parted.mid]>>
                  \o insertionSort(SubSeq(parted.data, parted.mid + 1, Len(data)))

\* sort.Slice by getFieldPriority
SortSlice(fields) == pdqsort(fields)

\* what GenerateForm returns and the registry it leaves behind
GenerateForm ==
    IF schema = NilSchema
    THEN [form |-> NoForm, err |-> "schema is nil", imageFields |-> imageFields]
    ELSE LET out == generateFormFields("", schema.Properties, FALSE, imageFields)
         IN  [form |-> [Fields |-> SortSlice(out.fields),
                        Action |-> "/admin/content",
                        Method |-> "POST"],
              err |-> "",
              imageFields |-> out.imageFields]

-----------------------------------------------------------------------------
(* The schemas and contents the validator is exercised on                  *)

\* the map with key k when v ranges over vals, or without it
OptKey(k, vals) == {EmptyMap} \cup {k :> v : v \in vals}

StrOfLen(n) == SubSeq("abcdefgh", 1, n)

Lengths == {N(i) : i \in 0..MaxLen}

StringDefs ==
    {("type" :> S("string")) @@ lo @@ hi :
        lo \in OptKey("minLength", Lengths), hi \in OptKey("maxLength", Lengths)}
    \cup {[type |-> S("string"), format |-> S(f)] :
            f \in {"email", "date", "date-time", "uri", "ipv4", "ipv6", "custom"}}
    \cup {[type |-> S("string"), enum |-> A(<<S("a"), S("ab")>>)],
          [type |-> S("string"), enum |-> A(<<S("a")>>), minLength |-> N(1),
           format |-> S("email"), pattern |-> S("^[a-z]+$")],
          [type |-> S("string"), pattern |-> S("^[a-z]+$")],
          [type |-> S("string"), pattern |-> S("[")],
          [type |-> S("string"), required |-> B(TRUE)],
          [minLength |-> N(1)],
          [type |-> N(1), maxLength |-> N(1)]}

NumberDefs ==
    {[type |-> S("number")],
     [type |-> S("number"), minimum |-> N(1), maximum |-> N(1)],
     [type |-> S("number"), exclusiveMinimum |-> N(0), exclusiveMaximum |-> N(1)],
     [type |-> S("number"), enum |-> A(<<N(1)>>)],
     [type |-> S("integer")],
     [type |-> S("integer"), multipleOf |-> N(2), enum |-> A(<<N(0), N(2)>>)],
     [type |-> S("number"), pattern |-> S("[")]}

OtherDefs ==
    {[type |-> S("boolean")],
     [type |-> S("boolean"), enum |-> A(<<B(FALSE)>>)],
     [type |-> S("custom")]}

ArrayDefs ==
    {[type |-> S("array"), uniqueItems |-> B(TRUE)],
     [type |-> S("array"), uniqueItems |-> B(TRUE), minItems |-> N(1),
      items |-> O([type |-> S("string"), minLength |-> N(1)])],
     [type |-> S("array"), maxItems |-> N(1), enum |-> A(<<A(<<>>)>>),
      items |-> O([type |-> S("number"), minimum |-> N(2)])]}

EmailDef == [type |-> S("string"), format |-> S("email"), minLength |-> N(MaxLen)]

\* an object that names its required children in its own required array
InnerContactDef ==
    [type |-> S("object"), required |-> A(<<S("email"), S("title")>>),
     properties |-> O([email |-> O(EmailDef)])]

ObjectDefs ==
    {[type |-> S("object")],
     [type |-> S("object"), additionalProperties |-> B(FALSE),
      required |-> A(<<S("email")>>),
      properties |-> O([email |-> O(EmailDef)])],
     [type |-> S("object"), enum |-> A(<<O(EmptyMap)>>),
      properties |-> O([email |-> O(EmailDef),
                        tags |-> O([type |-> S("array"),
                                    items |-> O(EmailDef)])])],
     [type |-> S("object"),
      properties |-> O([contact |-> O(InnerContactDef)])]}

ScalarValues ==
    {Null, B(TRUE), N(0), N(1), NumH(3), S("1"), S("1.5"), S("a@b.co")}
    \cup {S(StrOfLen(n)) : n \in 0..(MaxLen + 1)}

ItemValues == {N(1), S("1"), S("a"), S("")}

ArrayValues ==
    UNION {{A(a) : a \in [1..n -> ItemValues]} : n \in 0..MaxItems}

ObjectValues ==
    {O(EmptyMap)}
    \cup {O(("email" :> v) @@ x) :
            v \in {Null, N(1), S("ab"), S("a@b.co")},
            x \in OptKey("extra", {S("a")})}
    \cup {O([tags |-> A(<<S("ab"), N(1)>>)]),
          O([tags |-> A(<<S("ab")>>), email |-> S("a")]),
          O([contact |-> O(EmptyMap)]),
          O([contact |-> O([email |-> S("a@b.co")])])}

Values == ScalarValues \cup ArrayValues \cup ObjectValues

\* the top-level property mappings: one declared property, or a property
\* entry that is not an object, or none
PropertyMaps ==
    {"title" :> O(d) : d \in StringDefs \cup NumberDefs \cup OtherDefs}
    \cup {"tags" :> O(d) : d \in ArrayDefs}
    \cup {"contact" :> O(d) : d \in ObjectDefs}
    \cup {[title |-> S("text")], EmptyMap,
          [title |-> O([type |-> S("string"), required |-> B(TRUE)]),
           contact |-> O([type |-> S("object"), required |-> B(TRUE),
                          properties |-> O([email |-> O(EmailDef)])])],
          [title |-> O([type |-> S("string"), required |-> B(TRUE)]),
           contact |-> O([type |-> S("object"), required |-> A(<<S("email")>>),
                          properties |-> O([email |-> O(EmailDef)])])]}

Schemas ==
    {[Type |-> "object", Properties |-> p] : p \in PropertyMaps}
    \cup {[Type |-> "", Properties |-> [title |-> O([type |-> S("string")])]]}

\* content instances for a schema: an object giving a declared property any
\* value, with or without an undeclared field, or a value that is no object
ContentsFor(sch) ==
    {O((n :> v) @@ x) : n \in DOMAIN sch.Properties, v \in Values,
                        x \in OptKey("extra", {N(1)})}
    \cup {O(x) : x \in OptKey("extra", {N(1)})}
    \cup {Null, B(FALSE), N(1), S("a"), A(<<>>)}

-----------------------------------------------------------------------------
(* The components a specification does not exercise stay as constructed    *)

\* the three names FileStorage uses for one filename: fullPath,
\* fullPath + ".bak" and fullPath + ".tmp"
FileNames == {"main", "bak", "tmp"}

\* the goroutines that call into FileStorage
Procs == {1, 2}

\* a data directory without the file: no entry (inode 0) under any name
EmptyFS == [dir |-> [n \in FileNames |-> 0], data |-> [i \in {} |-> ""]]

\* a goroutine that is not inside a FileStorage call
IdleCall ==
    [pc |-> "idle", call |-> "none", bytes |-> "", fault |-> "none",
     src |-> 0, dst |-> 0, buf |-> "", err |-> "",
     before |-> [main |-> <<>>, bak |-> <<>>], installed |-> FALSE]

StorageIdle ==
    /\ files = EmptyFS
    /\ calls = [p \in Procs |-> IdleCall]

\* no call made yet
NoAuthResult ==
    [call |-> "none", id |-> "", err |-> "", seen |-> <<>>, status |-> 0, at |-> 0]

AuthIdle ==
    /\ sessions = [id \in {} |-> Null]
    /\ now = 0
    /\ issued = {}
    /\ revoked = {}
    /\ authResult = NoAuthResult

EngineIdle ==
    /\ schema = NilSchema
    /\ content = Null
    /\ mapOrder = SortedNames
    /\ fieldName = ""
    /\ fieldValue = Null
    /\ result = NewResult
    /\ crashed = FALSE
    /\ analysis = NoAnalysis
    /\ parseErr = ""
    /\ form = NoForm
    /\ formErr = ""
    /\ imageFields = <<>>
    /\ failures = <<>>

-----------------------------------------------------------------------------
(* The validator as a state machine                                        *)

Init ==
    /\ schema \in Schemas
    /\ content \in ContentsFor(schema)
    /\ mapOrder \in MapOrders
    /\ op = "none"
    /\ fieldName = ""
    /\ fieldValue = Null
    /\ result = NewResult
    /\ crashed = FALSE
    /\ analysis = NoAnalysis
    /\ parseErr = ""
    /\ form = NoForm
    /\ formErr = ""
    /\ imageFields = <<>>
    /\ failures = <<>>
    /\ StorageIdle
    /\ AuthIdle

\* POST /admin/schema/validate-content
DoValidateContent ==
    LET out == ValidateContent(content)
    IN  /\ op' = "ValidateContent"
        /\ result' = out.res
        /\ crashed' = out.panicked
        /\ fieldName' = ""
        /\ fieldValue' = Null
        /\ UNCHANGED <<schema, content, mapOrder>>
        /\ UNCHANGED <<analysis, parseErr, form, formErr, imageFields, failures>>
        /\ UNCHANGED <<storageVars, authVars>>

\* the requests a client editing the content sends for single fields: a
\* top-level field by its name, a field of a nested object by its dot path
FieldRequests ==
    {[name |-> n, value |-> content.o[n]] : n \in DOMAIN content.o}
    \cup UNION {{[name |-> n \o "." \o c, value |-> content.o[n].o[c]] :
                    c \in DOMAIN content.o[n].o}
                : n \in {k \in DOMAIN content.o : content.o[k].kind = "obj"}}

\* POST /admin/schema/validate-field-detailed
DoValidateFieldValue ==
    /\ content.kind = "obj"
    /\ \E req \in FieldRequests :
          LET out == ValidateFieldValue(req.name, req.value)
          IN  /\ op' = "ValidateFieldValue"
              /\ fieldName' = req.name
              /\ fieldValue' = req.value
              /\ result' = out.res
              /\ crashed' = out.panicked
    /\ UNCHANGED <<schema, content, mapOrder>>
    /\ UNCHANGED <<analysis, parseErr, form, formErr, imageFields, failures>>
    /\ UNCHANGED <<storageVars, authVars>>

Next == DoValidateContent \/ DoValidateFieldValue

Spec == Init /\ [][Next]_vars

-----------------------------------------------------------------------------
(* The parser as a state machine                                           *)

\* an entry of the top-level properties mapping under name k
Entry(k, vals) == {EmptyMap} \cup {k :> v : v \in vals}

TitleEntries ==
    Entry("title",
          {O([type |-> S("string"), minLength |-> N(1), maxLength |-> N(MaxLen)]),
           O([type |-> S("number"), minimum |-> N(1), maximum |-> NumH(3)]),
           O([type |-> S("string"), format |-> S("email"), pattern |-> S("^[a-z]+$"),
              enum |-> A(<<S("a"), S("ab")>>)]),
           O([minLength |-> NumH(3)]),
           S("text"),
           Null})

TagsEntries ==
    Entry("tags",
          {O([type |-> S("array"),
              items |-> O([type |-> S("string"), minLength |-> N(1)])]),
           A(<<>>)})

ContactEntries ==
    Entry("contact",
          {O([type |-> S("object"), required |-> A(<<S("email")>>),
              properties |-> O([email |-> O(EmailDef),
                                tags |-> O([type |-> S("array")]),
                                extra |-> S("text")])]),
           N(1)})

RequiredEntries ==
    Entry("required",
          {A(<<S("title")>>),
           A(<<S("email"), N(1), S("tags")>>),
           S("title"),
           O([type |-> S("boolean")])})

ParserSchemas ==
    {NilSchema}
    \cup {[Type |-> "object", Properties |-> t @@ g @@ c @@ r] :
            t \in TitleEntries, g \in TagsEntries,
            c \in ContactEntries, r \in RequiredEntries}

InitParser ==
    /\ schema \in ParserSchemas
    /\ mapOrder \in MapOrders
    /\ content = Null
    /\ op = "none"
    /\ fieldName = ""
    /\ fieldValue = Null
    /\ result = NewResult
    /\ crashed = FALSE
    /\ analysis = NoAnalysis
    /\ parseErr = ""
    /\ form = NoForm
    /\ formErr = ""
    /\ imageFields = <<>>
    /\ failures = <<>>
    /\ StorageIdle
    /\ AuthIdle

\* GET /admin/schema/analyze
DoParseSchema ==
    LET out == ParseSchema
    IN  /\ op' = "ParseSchema"
        /\ analysis' = out.analysis
        /\ parseErr' = out.err
        /\ UNCHANGED <<schema, content, mapOrder, fieldName, fieldValue, result, crashed>>
        /\ UNCHANGED <<form, formErr, imageFields, failures>>
        /\ UNCHANGED <<storageVars, authVars>>

\* the field names and values of POST /admin/schema/validate-field
ParserFieldNames == {"title", "tags", "contact"}

ParserFieldValues ==
    {S(""), S("a"), S("abc"), N(1), A(<<S("a")>>), O([email |-> S("a@b.co")])}

\* POST /admin/schema/validate-field
DoParserValidateFieldValue ==
    \E name \in ParserFieldNames, value \in ParserFieldValues :
        /\ op' = "SchemaParser.ValidateFieldValue"
        /\ fieldName' = name
        /\ fieldValue' = value
        /\ failures' = ParserValidateFieldValue(name, value)
        /\ UNCHANGED <<schema, content, mapOrder, result, crashed>>
        /\ UNCHANGED <<analysis, parseErr, form, formErr, imageFields>>
        /\ UNCHANGED <<storageVars, authVars>>

NextParser == DoParseSchema \/ DoParserValidateFieldValue

SpecParser == InitParser /\ [][NextParser]_vars

-----------------------------------------------------------------------------
(* The form generator as a state machine                                   *)

EnumValues == {A(<<S("a"), S("b")>>), A(<<N(1), NumH(3)>>), S("a")}

\* scalar properties: every combination of type, enum, format, title and
\* description
ScalarFormDefs ==
    {("type" :> S(t)) @@ e @@ f @@ ti @@ de :
        t \in {"string", "number", "integer"},
        e \in OptKey("enum", EnumValues),
        f \in OptKey("format", {S("email"), S("html"), S("image"), S("textarea")}),
        ti \in OptKey("title", {S("Rich"), S("Photo")}),
        de \in OptKey("description", {S("Body text")})}

OtherFormDefs ==
    {[type |-> S("boolean")],
     [type |-> S("boolean"), enum |-> A(<<B(TRUE)>>)],
     [type |-> S("array"), items |-> O([type |-> S("string"),
                                        enum |-> A(<<S("x"), S("y")>>)])],
     [type |-> S("array"), items |-> O([type |-> S("number")])],
     [type |-> S("array")],
     [type |-> S("array"), title |-> S("Rich tags"),
      items |-> O([type |-> S("string"), enum |-> A(<<S("x"), S("y")>>)])],
     [type |-> S("array"), description |-> S("formatted"),
      items |-> O([type |-> S("number")])],
     [type |-> S("array"), enum |-> A(<<A(<<>>)>>),
      items |-> O([type |-> S("string")])],
     [type |-> S("array"), items |-> O([enum |-> A(<<S("x")>>)])],
     [type |-> S("string"), maxLength |-> N(101)],
     [type |-> S("number"), minimum |-> NumH(3), maximum |-> N(2)],
     [type |-> S("string"), required |-> B(TRUE), default |-> S("x"),
      minLength |-> N(1)],
     [type |-> S("custom")],
     [title |-> S("WYSIWYG")],
     [type |-> S("object"), enum |-> A(<<O(EmptyMap)>>),
      properties |-> O([email |-> O([type |-> S("string")])])],
     [type |-> S("object"), description |-> S("formatted"),
      properties |-> O([email |-> O([type |-> S("string")])])]}

NestedFormDef ==
    [type |-> S("object"),
     properties |->
        O([email |-> O([type |-> S("string"), format |-> S("image")]),
           tags |-> O([type |-> S("number"), enum |-> A(<<N(1)>>),
                       description |-> S("formatted")]),
           contact |-> O([type |-> S("object"),
                          properties |-> O([title |-> O([type |-> S("string"),
                                                          title |-> S("Heading")])])]),
           extra |-> S("text")])]

\* a property under every name
TextUnder(names) == [n \in names |-> O([type |-> S("string")])]

\* seven top-level properties, one of them an object with six children:
\* thirteen descriptors
WideFormSchema ==
    [Type |-> "object",
     Properties |->
        ("contact" :> O([type |-> S("object"),
                         properties |-> O(TextUnder(AllNames \ {"contact"}))]))
        @@ TextUnder(AllNames \ {"contact"})]

FormSchemas ==
    {NilSchema, WideFormSchema}
    \cup {[Type |-> "object", Properties |-> "title" :> O(d)] :
            d \in ScalarFormDefs \cup OtherFormDefs}
    \cup {[Type |-> "object",
           Properties |-> ("title" :> O(d)) @@ c @@ x] :
            d \in {[type |-> S("string"), enum |-> A(<<S("a"), S("b")>>)],
                   [type |-> S("string"), title |-> S("Logo")]},
            c \in OptKey("contact", {O(NestedFormDef)}),
            x \in {[description |-> O([type |-> S("string")]),
                    tags |-> O([type |-> S("array")]),
                    required |-> A(<<S("title")>>)],
                   [extra |-> O([type |-> S("integer")])]}}

InitForm ==
    /\ schema \in FormSchemas
    /\ mapOrder \in MapOrders
    /\ content = Null
    /\ op = "none"
    /\ fieldName = ""
    /\ fieldValue = Null
    /\ result = NewResult
    /\ crashed = FALSE
    /\ analysis = NoAnalysis
    /\ parseErr = ""
    /\ form = NoForm
    /\ formErr = ""
    /\ imageFields = <<>>
    /\ failures = <<>>
    /\ StorageIdle
    /\ AuthIdle

\* one call of GenerateForm on the generator
DoGenerateForm ==
    /\ Len(imageFields) < MaxRegistered
    /\ LET out == GenerateForm
       IN  /\ op' = "GenerateForm"
           /\ form' = out.form
           /\ formErr' = out.err
           /\ imageFields' = out.imageFields
    /\ UNCHANGED <<schema, content, mapOrder, fieldName, fieldValue, result, crashed>>
    /\ UNCHANGED <<analysis, parseErr, failures>>
    /\ UNCHANGED <<storageVars, authVars>>

NextForm == DoGenerateForm

SpecForm == InitForm /\ [][NextForm]_vars

-----------------------------------------------------------------------------
(* FileStorage (internal storage of one filename of the data directory).   *)
(* The file system maps each name to an inode and each inode to its bytes; *)
(* an open descriptor holds an inode, so a descriptor opened on the        *)
(* temporary name keeps writing into the file after it has been renamed.   *)
(* A call is a sequence of system calls; each system call is one step.     *)

\* the bytes under a name: <<>> when the name has no entry
Content(f, name) == IF f.dir[name] = 0 THEN <<>> ELSE <<f.data[f.dir[name]]>>

\* the lowest inode number not in use
NewInode(f) ==
    CHOOSE i \in 1..(Cardinality(DOMAIN f.data) + 1) :
        i \notin DOMAIN f.data /\ \A j \in 1..(i - 1) : j \in DOMAIN f.data

\* open(name, O_WRONLY|O_CREATE|O_TRUNC): os.Create and the open of os.WriteFile
OpenTrunc(f, name) ==
    IF f.dir[name] # 0
    THEN [f EXCEPT !.data[f.dir[name]] = ""]
    ELSE LET i == NewInode(f)
         IN  [dir |-> [f.dir EXCEPT ![name] = i], data |-> (i :> "") @@ f.data]

\* write(fd, bytes) on a descriptor at offset 0: the bytes replace the head
\* of what the file holds and anything longer stays behind them
Overlay(old, bytes) == bytes \o SubSeq(old, Len(bytes) + 1, Len(old))

WriteAt(f, inode, bytes) == [f EXCEPT !.data[inode] = Overlay(@, bytes)]

\* os.Rename of an existing name: the target name takes over the inode
Rename(f, from, to) == [f EXCEPT !.dir[to] = f.dir[from], !.dir[from] = 0]

\* os.Remove; a missing name is left missing
Remove(f, name) == [f EXCEPT !.dir[name] = 0]

\* the kernel drops an inode that no name and no descriptor refers to
Release(w) ==
    LET live == {w.files.dir[n] : n \in FileNames}
                \cup {w.calls[p].src : p \in Procs} \cup {w.calls[p].dst : p \in Procs}
    IN  [w EXCEPT !.files.data = [i \in (DOMAIN w.files.data) \cap live |-> w.files.data[i]]]

\* json.MarshalIndent(data, "", "  ") of a value whose strings need no escape
RECURSIVE MarshalIndent(_, _)
MarshalIndent(v, indent) ==
    LET inner == indent \o "  "
    IN  CASE v.kind = "null" -> "null"
          [] v.kind = "bool" -> (IF v.b THEN "true" ELSE "false")
          [] v.kind = "num" -> FormatFloat(v.h)
          [] v.kind = "str" -> "\"" \o v.s \o "\""
          [] v.kind = "arr" ->
               IF Len(v.a) = 0 THEN "[]"
               ELSE "[\n"
                    \o JoinWith([i \in 1..Len(v.a) |->
                                    inner \o MarshalIndent(v.a[i], inner)], ",\n")
                    \o "\n" \o indent \o "]"
          [] v.kind = "obj" ->
               LET keys == RangeKeys(v.o, SortedNames)
               IN  IF Len(keys) = 0 THEN "{}"
                   ELSE "{\n"
                        \o JoinWith([i \in 1..Len(keys) |->
                                        inner \o "\"" \o keys[i] \o "\": "
                                        \o MarshalIndent(v.o[keys[i]], inner)], ",\n")
                        \o "\n" \o indent \o "}"

WriteCalls == {"WriteJSONFile", "WriteTextFile"}

\* the call enters WriteJSONFile / WriteTextFile with the bytes to store
StartCall(w, p, call, bytes, fault) ==
    [w EXCEPT !.calls[p] =
        [IdleCall EXCEPT !.pc = "FileExists", !.call = call, !.bytes = bytes,
                         !.fault = fault,
                         !.before = [main |-> Content(w.files, "main"),
                                     bak |-> Content(w.files, "bak")]]]

\* CreateBackup and the temp-and-rename of WriteJSONFile / WriteTextFile, one
\* system call of goroutine p at a time.  A failure of CreateBackup is logged
\* and the write goes on.
StepCall(w, p) ==
    LET c == w.calls[p]
        f == w.files
    IN  CASE c.pc = "FileExists" ->
               [w EXCEPT !.calls[p].pc = IF f.dir["main"] = 0 THEN "os.WriteFile"
                                         ELSE "os.Open"]
          [] c.pc = "os.Open" ->
               IF f.dir["main"] = 0
               THEN [w EXCEPT !.calls[p].pc = "os.WriteFile"]
               ELSE [w EXCEPT !.calls[p].src = f.dir["main"],
                              !.calls[p].pc = "os.Create"]
          [] c.pc = "os.Create" ->
               IF c.fault = "backup"
               THEN [w EXCEPT !.calls[p].src = 0, !.calls[p].pc = "os.WriteFile"]
               ELSE LET g == OpenTrunc(f, "bak")
                    IN  [w EXCEPT !.files = g,
                                  !.calls[p].dst = g.dir["bak"],
                                  !.calls[p].pc = "io.Copy read"]
          [] c.pc = "io.Copy read" ->
               [w EXCEPT !.calls[p].buf = f.data[c.src],
                         !.calls[p].pc = "io.Copy write"]
          [] c.pc = "io.Copy write" ->
               [w EXCEPT !.files = WriteAt(f, c.dst, c.buf),
                         !.calls[p].src = 0, !.calls[p].dst = 0, !.calls[p].buf = "",
                         !.calls[p].pc = "os.WriteFile"]
          [] c.pc = "os.WriteFile" ->
               LET g == OpenTrunc(f, "tmp")
               IN  [w EXCEPT !.files = g,
                             !.calls[p].dst = g.dir["tmp"],
                             !.calls[p].pc = "write"]
          [] c.pc = "write" ->
               [w EXCEPT !.files = WriteAt(f, c.dst, c.bytes),
                         !.calls[p].dst = 0,
                         !.calls[p].pc = "os.Rename"]
          [] c.pc = "os.Rename" ->
               IF f.dir["tmp"] = 0
               THEN [w EXCEPT !.calls[p].pc = "os.Remove"]
               ELSE [w EXCEPT !.files = Rename(f, "tmp", "main"),
                              !.calls[p].pc = "return"]
          [] c.pc = "os.Remove" ->
               [w EXCEPT !.files = Remove(f, "tmp"),
                         !.calls[p].err = "failed to rename temporary file",
                         !.calls[p].pc = "return"]

\* what is under the main name: which inode, holding which bytes
MainState(f) == <<f.dir["main"], Content(f, "main")>>

\* a call has had its payload installed once the main file, having changed
\* while the call was running, holds the call's bytes
Observe(old, w) ==
    IF MainState(old.files) = MainState(w.files) THEN w
    ELSE [w EXCEPT !.calls =
            [p \in Procs |->
                [w.calls[p] EXCEPT !.installed =
                    @ \/ (/\ w.calls[p].call \in WriteCalls
                          /\ Content(w.files, "main") = <<w.calls[p].bytes>>)]]]

\* one system call of goroutine p and what it leaves behind
Advance(w, p) == Observe(w, Release(StepCall(w, p)))

\* goroutine p runs its call to the end without another goroutine in between
RECURSIVE Run(_, _)
Run(w, p) == IF w.calls[p].pc = "return" THEN w ELSE Run(Advance(w, p), p)

WriteJSONFile(w, p, data, fault) ==
    Run(StartCall(w, p, "WriteJSONFile", MarshalIndent(data, ""), fault), p)

WriteTextFile(w, p, text, fault) ==
    Run(StartCall(w, p, "WriteTextFile", text, fault), p)

\* RestoreFromBackup that moves the backup over the main file
RestoreFromBackup_Move(f) ==
    IF f.dir["bak"] = 0
    THEN [files |-> f, err |-> "backup file does not exist"]
    ELSE [files |-> Rename(f, "bak", "main"), err |-> ""]

RestoreFromBackup(f) ==
    IF f.dir["bak"] = 0
    THEN [files |-> f, err |-> "backup file does not exist"]
    ELSE LET g == OpenTrunc(f, "main")
         IN  [files |-> WriteAt(g, g.dir["main"], g.data[g.dir["bak"]]), err |-> ""]

DeleteFile(f) == [files |-> Remove(Remove(f, "main"), "bak"), err |-> ""]

\* the call of a handler that is not a write, as the caller saw it
Called(w, p, call, out) ==
    Release([files |-> out.files,
             calls |-> [w.calls EXCEPT ![p] =
                          [IdleCall EXCEPT !.pc = "return", !.call = call,
                                           !.err = out.err,
                                           !.before = [main |-> Content(w.files, "main"),
                                                       bak |-> Content(w.files, "bak")]]]])

World == [files |-> files, calls |-> calls]

-----------------------------------------------------------------------------
(* FileStorage used by one caller at a time                                *)

\* the data a caller hands to WriteJSONFile and the text it hands to WriteTextFile
JSONPayloads == {S("a"), O([title |-> S("a")])}
TextPayloads == {"a", "bc"}

\* "backup": os.Create of the .bak file fails (the file is not writable)
Faults == {"none", "backup"}

InitStorage ==
    /\ EngineIdle
    /\ AuthIdle
    /\ StorageIdle
    /\ op = "none"

DoWriteJSONFile ==
    \E data \in JSONPayloads, fault \in Faults :
        LET w == WriteJSONFile(World, 1, data, fault)
        IN  /\ files' = w.files
            /\ calls' = w.calls
            /\ op' = "WriteJSONFile"
            /\ UNCHANGED <<engineVars, authVars>>

DoWriteTextFile ==
    \E text \in TextPayloads, fault \in Faults :
        LET w == WriteTextFile(World, 1, text, fault)
        IN  /\ files' = w.files
            /\ calls' = w.calls
            /\ op' = "WriteTextFile"
            /\ UNCHANGED <<engineVars, authVars>>

DoRestoreFromBackup ==
    LET w == Called(World, 1, "RestoreFromBackup", RestoreFromBackup(files))
    IN  /\ files' = w.files
        /\ calls' = w.calls
        /\ op' = "RestoreFromBackup"
        /\ UNCHANGED <<engineVars, authVars>>

DoDeleteFile ==
    LET w == Called(World, 1, "DeleteFile", DeleteFile(files))
    IN  /\ files' = w.files
        /\ calls' = w.calls
        /\ op' = "DeleteFile"
        /\ UNCHANGED <<engineVars, authVars>>

NextStorage == DoWriteJSONFile \/ DoWriteTextFile \/ DoRestoreFromBackup \/ DoDeleteFile

SpecStorage == InitStorage /\ [][NextStorage]_vars

-----------------------------------------------------------------------------
(* FileStorage called from two goroutines: the HTTP server runs each       *)
(* request in its own goroutine and FileStorage holds no lock, so the      *)
(* system calls of two writes of the same filename interleave freely.      *)

\* the file before the two requests: not there yet, or holding a version
RaceStarts == {EmptyFS, OpenTrunc(EmptyFS, "main"), WriteAt(OpenTrunc(EmptyFS, "main"), 1, "old")}

InitRace ==
    /\ EngineIdle
    /\ AuthIdle
    /\ files \in RaceStarts
    /\ calls = [p \in Procs |-> IdleCall]
    /\ op = "none"

\* goroutine p enters WriteJSONFile
DoBeginWriteJSONFile(p) ==
    /\ calls[p].pc = "idle"
    /\ \E data \in JSONPayloads :
          LET w == StartCall(World, p, "WriteJSONFile", MarshalIndent(data, ""), "none")
          IN  /\ files' = w.files
              /\ calls' = w.calls
    /\ op' = "WriteJSONFile"
    /\ UNCHANGED <<engineVars, authVars>>

\* goroutine p enters WriteTextFile
DoBeginWriteTextFile(p) ==
    /\ calls[p].pc = "idle"
    /\ \E text \in TextPayloads :
          LET w == StartCall(World, p, "WriteTextFile", text, "none")
          IN  /\ files' = w.files
              /\ calls' = w.calls
    /\ op' = "WriteTextFile"
    /\ UNCHANGED <<engineVars, authVars>>

\* goroutine p makes the next system call of its write
DoSystemCall(p) ==
    /\ calls[p].pc \notin {"idle", "return"}
    /\ LET w == Advance(World, p)
       IN  /\ files' = w.files
           /\ calls' = w.calls
    /\ UNCHANGED <<op, engineVars, authVars>>

NextRace ==
    \E p \in Procs : DoBeginWriteJSONFile(p) \/ DoBeginWriteTextFile(p) \/ DoSystemCall(p)

SpecRace == InitRace /\ [][NextRace]_vars

-----------------------------------------------------------------------------
(* AuthManager (internal/managers): sessions in memory, keyed by their ID. *)
(* Times are hours on the monotonic clock that time.Now() reads.           *)

\* 24 * time.Hour
SessionHours == 24

\* config.AdminUsername and config.AdminPassword as ValidateConfig defaults them
AdminUsername == "admin"

\* hex of the SHA-256 of the password: distinct passwords, distinct hashes
hashPassword(password) == "sha256:" \o password

AdminPassword == hashPassword("admin123")

\* the IDs generateSessionID can return: hex strings of 32 random bytes,
\* none of which comes twice
SessionIDs == {"s" \o ToString(i) : i \in 1..MaxLogins}

Without(ss, id) == [k \in (DOMAIN ss) \ {id} |-> ss[k]]

Login(ss, t, username, password, sessionID) ==
    IF username # AdminUsername \/ hashPassword(password) # AdminPassword
    THEN [sessions |-> ss, id |-> "", err |-> "invalid credentials"]
    ELSE [sessions |-> (sessionID :> [ID |-> sessionID, Username |-> username,
                                      CreatedAt |-> t, ExpiresAt |-> t + SessionHours,
                                      IsActive |-> TRUE]) @@ ss,
          id |-> sessionID, err |-> ""]

Logout(ss, sessionID) ==
    IF sessionID \in DOMAIN ss
    THEN [sessions |-> Without(ss, sessionID), err |-> ""]
    ELSE [sessions |-> ss, err |-> "session not found"]

\* ValidateSession without the expiry check
ValidateSession_NoExpiry(ss, t, sessionID) ==
    IF sessionID \notin DOMAIN ss
    THEN [sessions |-> ss, err |-> "session not found", seen |-> <<>>]
    ELSE IF ~ss[sessionID].IsActive
    THEN [sessions |-> ss, err |-> "session is inactive", seen |-> <<ss[sessionID]>>]
    ELSE [sessions |-> [ss EXCEPT ![sessionID].ExpiresAt = t + SessionHours],
          err |-> "", seen |-> <<ss[sessionID]>>]

\* seen: the session as the call found it in the map
ValidateSession(ss, t, sessionID) ==
    IF sessionID \notin DOMAIN ss
    THEN [sessions |-> ss, err |-> "session not found", seen |-> <<>>]
    ELSE IF ~ss[sessionID].IsActive
    THEN [sessions |-> ss, err |-> "session is inactive", seen |-> <<ss[sessionID]>>]
    ELSE IF t > ss[sessionID].ExpiresAt
    THEN [sessions |-> Without(ss, sessionID), err |-> "session has expired",
          seen |-> <<ss[sessionID]>>]
    ELSE [sessions |-> [ss EXCEPT ![sessionID].ExpiresAt = t + SessionHours],
          err |-> "", seen |-> <<ss[sessionID]>>]

\* the session ID a request carries: the session_id cookie, else the
\* Authorization header without its "Bearer " prefix
RequestSessionID(r) ==
    IF r.cookie # <<>> THEN r.cookie[1]
    ELSE IF Len(r.authorization) > 7 /\ SubSeq(r.authorization, 1, 7) = "Bearer "
    THEN SubSeq(r.authorization, 8, Len(r.authorization))
    ELSE r.authorization

GetSessionFromRequest(ss, t, r) ==
    IF r.cookie = <<>> /\ r.authorization = ""
    THEN [sessions |-> ss, err |-> "no session ID provided", seen |-> <<>>]
    ELSE ValidateSession(ss, t, RequestSessionID(r))

\* the middleware: 401 on any error, else the protected handler runs
RequireAuth(ss, t, r) ==
    LET out == GetSessionFromRequest(ss, t, r)
    IN  [sessions |-> out.sessions, err |-> out.err, seen |-> out.seen,
         status |-> IF out.err # "" THEN 401 ELSE 200]

CleanupExpiredSessions(ss, t) ==
    [k \in {id \in DOMAIN ss : ~(t > ss[id].ExpiresAt \/ ~ss[id].IsActive)} |-> ss[k]]

-----------------------------------------------------------------------------
(* The AuthManager as a state machine                                      *)

Usernames == {"admin", "guest"}
Passwords == {"admin123", "guess"}

\* requests with no credentials, with the cookie, with the Authorization
\* header bare or with the Bearer prefix
Requests ==
    {[cookie |-> <<>>, authorization |-> ""]}
    \cup {[cookie |-> <<id>>, authorization |-> ""] : id \in SessionIDs}
    \cup {[cookie |-> <<>>, authorization |-> id] : id \in SessionIDs}
    \cup {[cookie |-> <<>>, authorization |-> "Bearer " \o id] : id \in SessionIDs}

InitAuth ==
    /\ EngineIdle
    /\ StorageIdle
    /\ AuthIdle
    /\ op = "none"

\* POST /admin/login
DoLogin ==
    /\ \E username \in Usernames, password \in Passwords, sessionID \in SessionIDs \ issued :
          LET out == Login(sessions, now, username, password, sessionID)
          IN  /\ sessions' = out.sessions
              /\ issued' = IF out.err = "" THEN issued \cup {sessionID} ELSE issued
              /\ authResult' = [call |-> "Login", id |-> out.id, err |-> out.err,
                                seen |-> <<>>, status |-> 0, at |-> now]
    /\ op' = "Login"
    /\ UNCHANGED <<now, revoked, engineVars, storageVars>>

\* POST /admin/logout
DoLogout ==
    /\ \E sessionID \in SessionIDs :
          LET out == Logout(sessions, sessionID)
          IN  /\ sessions' = out.sessions
              /\ revoked' = IF out.err = "" THEN revoked \cup {sessionID} ELSE revoked
              /\ authResult' = [call |-> "Logout", id |-> sessionID, err |-> out.err,
                                seen |-> <<>>, status |-> 0, at |-> now]
    /\ op' = "Logout"
    /\ UNCHANGED <<now, issued, engineVars, storageVars>>

DoValidateSession ==
    /\ \E sessionID \in SessionIDs :
          LET out == ValidateSession(sessions, now, sessionID)
          IN  /\ sessions' = out.sessions
              /\ revoked' = IF out.err = "session has expired"
                            THEN revoked \cup {sessionID} ELSE revoked
              /\ authResult' = [call |-> "ValidateSession", id |-> sessionID,
                                err |-> out.err, seen |-> out.seen, status |-> 0,
                                at |-> now]
    /\ op' = "ValidateSession"
    /\ UNCHANGED <<now, issued, engineVars, storageVars>>

\* a request to a route wrapped in RequireAuth
DoRequireAuth ==
    /\ \E r \in Requests :
          LET out == RequireAuth(sessions, now, r)
          IN  /\ sessions' = out.sessions
              /\ revoked' = IF out.err = "session has expired"
                            THEN revoked \cup {RequestSessionID(r)} ELSE revoked
              /\ authResult' = [call |-> "RequireAuth", id |-> RequestSessionID(r),
                                err |-> out.err, seen |-> out.seen,
                                status |-> out.status, at |-> now]
    /\ op' = "RequireAuth"
    /\ UNCHANGED <<now, issued, engineVars, storageVars>>

\* GetActiveSessions / ListSessions
DoCleanupExpiredSessions ==
    /\ sessions' = CleanupExpiredSessions(sessions, now)
    /\ authResult' = [call |-> "CleanupExpiredSessions", id |-> "", err |-> "",
                      seen |-> <<>>, status |-> 0, at |-> now]
    /\ op' = "CleanupExpiredSessions"
    /\ UNCHANGED <<now, issued, revoked, engineVars, storageVars>>

\* half a session lifetime passes
DoTick ==
    /\ now < MaxTicks * (SessionHours \div 2)
    /\ now' = now + SessionHours \div 2
    /\ UNCHANGED <<op, sessions, issued, revoked, authResult, engineVars, storageVars>>

NextAuth ==
    \/ DoLogin
    \/ DoLogout
    \/ DoValidateSession
    \/ DoRequireAuth
    \/ DoCleanupExpiredSessions
    \/ DoTick

SpecAuth == InitAuth /\ [][NextAuth]_vars

-----------------------------------------------------------------------------
(* ContentManager (internal/managers/content.go) on the file content.json  *)
(* of the FileStorage above.  A ContentData is a record of Title,          *)
(* Description, Sections (a JSON object, or null for the nil map) and      *)
(* LastUpdated (the clock's reading, in hours).                            *)

TwoDigit(n) == IF n < 10 THEN "0" \o ToString(n) ELSE ToString(n)

\* time.Time as JSON: an RFC 3339 text, for a clock that starts at day 1
FormatTime(hours) ==
    "0001-01-" \o TwoDigit(1 + hours \div 24) \o "T" \o TwoDigit(hours % 24) \o ":00:00Z"

\* json.MarshalIndent of a ContentData: the struct's fields in their order
MarshalContentData(c) ==
    "{\n  \"title\": \"" \o c.Title
    \o "\",\n  \"description\": \"" \o c.Description
    \o "\",\n  \"sections\": " \o MarshalIndent(c.Sections, "  ")
    \o ",\n  \"last_updated\": \"" \o FormatTime(c.LastUpdated) \o "\"\n}"

\* createDefaultContent, its sections cut down to one section of two entries
DefaultSections ==
    O([contact |-> O([title |-> S("Contact"), email |-> S("contact@example.com")])])

createDefaultContent ==
    [Title |-> "Welcome to OnePage CMS",
     Description |-> "A simple, lightweight content management system",
     Sections |-> DefaultSections,
     LastUpdated |-> now]

\* the values of the fields of a ContentData the model distinguishes
ContentTitles == {"", "a", "b", "Welcome to OnePage CMS"}
ContentDescriptions == {"", "d", "A simple, lightweight content management system"}
ContentSections ==
    {Null, O(EmptyMap), O([contact |-> O([title |-> S("a")])]),
     O([contact |-> S("x")]), DefaultSections}
ClockReadings == {k * (SessionHours \div 2) : k \in 0..MaxTicks}

ContentDatas ==
    [Title : ContentTitles, Description : ContentDescriptions,
     Sections : ContentSections, LastUpdated : ClockReadings]

\* every ContentData with its JSON text
JSONTexts == {<<MarshalContentData(c), c>> : c \in ContentDatas}

\* json.Unmarshal into a ContentData: the ContentData these bytes are the
\* JSON text of, or an error when they are not the text of any
Unmarshal(bytes) ==
    LET read == {t \in JSONTexts : t[1] = bytes}
    IN  IF read # {}
        THEN [content |-> (CHOOSE t \in read : TRUE)[2], err |-> ""]
        ELSE [content |-> createDefaultContent, err |-> "invalid character"]

\* validateContent: the content with a nil Sections map replaced, and the
\* error.  The sections of the model hold at most one entry, so the range
\* loop over them has one order.
validateContent(c) ==
    LET made == IF c.Sections = Null THEN [c EXCEPT !.Sections = O(EmptyMap)] ELSE c
        m == made.Sections.o
        bad(n) == n = "" \/ m[n].kind # "obj"
        first == CHOOSE n \in DOMAIN m : bad(n)
    IN  IF c.Title = "" THEN [content |-> c, err |-> "title cannot be empty"]
        ELSE IF \E n \in DOMAIN m : bad(n)
        THEN [content |-> made,
              err |-> IF first = "" THEN "section name cannot be empty"
                      ELSE "section '" \o first \o "' must be an object"]
        ELSE [content |-> made, err |-> ""]

\* SaveContent that writes the file before it validates the content
SaveContent_WriteFirst(w, c, fault) ==
    LET stamped == [c EXCEPT !.LastUpdated = now]
        v == validateContent(stamped)
        written == Run(StartCall(w, 1, "WriteJSONFile",
                                 MarshalContentData(stamped), fault), 1)
    IN  IF v.err # ""
        THEN [w |-> written, content |-> v.content,
              err |-> "content validation failed: " \o v.err]
        ELSE [w |-> written, content |-> v.content, err |-> ""]

\* SaveContent: the world it leaves, the content as stamped, and the error
SaveContent(w, c, fault) ==
    LET stamped == [c EXCEPT !.LastUpdated = now]
        v == validateContent(stamped)
        written == Run(StartCall(w, 1, "WriteJSONFile",
                                 MarshalContentData(v.content), fault), 1)
    IN  IF v.err # ""
        THEN [w |-> w, content |-> v.content,
              err |-> "content validation failed: " \o v.err]
        ELSE IF written.calls[1].err # ""
        THEN [w |-> written, content |-> v.content,
              err |-> "failed to save content file: " \o written.calls[1].err]
        ELSE [w |-> written, content |-> v.content, err |-> ""]

LoadContent(w, fault) ==
    IF w.files.dir["main"] = 0
    THEN LET saved == SaveContent(w, createDefaultContent, fault)
         IN  IF saved.err # ""
             THEN [saved EXCEPT !.err = "failed to create default content: " \o @]
             ELSE saved
    ELSE LET read == Unmarshal(Content(w.files, "main")[1])
             v == validateContent(read.content)
         IN  IF read.err # ""
             THEN [w |-> w, content |-> read.content,
                   err |-> "failed to read content file: failed to parse JSON from content.json: "
                           \o read.err]
             ELSE IF v.err # ""
             THEN [w |-> w, content |-> v.content,
                   err |-> "content validation failed: " \o v.err]
             ELSE [w |-> w, content |-> v.content, err |-> ""]

\* the range loop of UpdateContent over the updates, in the order keys
RECURSIVE ApplyUpdates(_, _, _)
ApplyUpdates(keys, updates, c) ==
    IF keys = <<>> THEN [content |-> c, err |-> ""]
    ELSE LET key == Head(keys)
             value == updates[key]
         IN  CASE key = "title" ->
                    IF value.kind = "str"
                    THEN ApplyUpdates(Tail(keys), updates, [c EXCEPT !.Title = value.s])
                    ELSE [content |-> c, err |-> "title must be a string"]
               [] key = "description" ->
                    IF value.kind = "str"
                    THEN ApplyUpdates(Tail(keys), updates,
                                      [c EXCEPT !.Description = value.s])
                    ELSE [content |-> c, err |-> "description must be a string"]
               [] key = "sections" ->
                    IF value.kind = "obj"
                    THEN ApplyUpdates(Tail(keys), updates, [c EXCEPT !.Sections = value])
                    ELSE [content |-> c, err |-> "sections must be a map"]
               [] OTHER -> [content |-> c, err |-> "unknown field: " \o key]

\* UpdateContent, the updates ranged over in the order keys: the world it
\* leaves, with the call as its caller saw it
UpdateContent(w, updates, keys, fault) ==
    LET loaded == LoadContent(w, fault)
        applied == ApplyUpdates(keys, updates, loaded.content)
        saved == SaveContent(loaded.w, applied.content, fault)
        returned(after, err) ==
            [files |-> after.files,
             calls |-> [after.calls EXCEPT ![1] =
                          [IdleCall EXCEPT !.pc = "return", !.call = "UpdateContent",
                                           !.fault = fault, !.err = err,
                                           !.before = [main |-> Content(w.files, "main"),
                                                       bak |-> Content(w.files, "bak")]]]]
    IN  IF loaded.err # ""
        THEN returned(loaded.w, "failed to load current content: " \o loaded.err)
        ELSE IF applied.err # "" THEN returned(loaded.w, applied.err)
        ELSE returned(saved.w, saved.err)

-----------------------------------------------------------------------------
(* The content manager as a state machine                                  *)

\* the updates of POST /admin/content
UpdateMaps ==
    {EmptyMap,
     [title |-> S("b")], [title |-> S("")], [title |-> N(1)],
     [description |-> N(1)],
     [sections |-> O([contact |-> S("x")])],
     [sections |-> O("" :> O(EmptyMap))],
     [sections |-> A(<<>>)],
     [extra |-> S("x")],
     [title |-> S("b"), extra |-> S("x")],
     [title |-> S("b"), description |-> N(1)],
     [title |-> S(""), description |-> S("d")]}

\* the orders in which a range loop can visit the keys of m
KeyOrders(m) ==
    {q \in [1..Cardinality(DOMAIN m) -> DOMAIN m] :
        \A i, j \in DOMAIN q : q[i] = q[j] => i = j}

\* what content.json can hold when the server starts: a content saved
\* earlier, a file edited by hand to an empty title, or no JSON at all
StoredTexts ==
    {MarshalContentData([Title |-> "a", Description |-> "", Sections |-> O(EmptyMap),
                         LastUpdated |-> 0]),
     MarshalContentData([Title |-> "", Description |-> "d", Sections |-> Null,
                         LastUpdated |-> 0]),
     "not json"}

NoCalls == [files |-> EmptyFS, calls |-> [p \in Procs |-> IdleCall]]

\* the data directory after the texts have been written one after the other
RECURSIVE DirectoryAfter(_)
DirectoryAfter(texts) ==
    IF texts = <<>> THEN NoCalls
    ELSE [files |-> WriteTextFile(DirectoryAfter(SubSeq(texts, 1, Len(texts) - 1)), 1,
                                  texts[Len(texts)], "none").files,
          calls |-> NoCalls.calls]

InitContent ==
    /\ EngineIdle
    /\ AuthIdle
    /\ op = "none"
    /\ calls = NoCalls.calls
    /\ \E texts \in {<<>>} \cup {<<t>> : t \in StoredTexts}
                   \cup {<<t, u>> : t \in StoredTexts, u \in StoredTexts} :
          files = DirectoryAfter(texts).files

\* POST /admin/content
DoUpdateContent ==
    \E updates \in UpdateMaps, fault \in Faults :
        \E keys \in KeyOrders(updates) :
            LET w == UpdateContent(World, updates, keys, fault)
            IN  /\ files' = w.files
                /\ calls' = w.calls
                /\ op' = "UpdateContent"
                /\ UNCHANGED <<engineVars, authVars>>

NextContent == DoUpdateContent

SpecContent == InitContent /\ [][NextContent]_vars

-----------------------------------------------------------------------------
(* Vocabulary of the properties                                            *)

StartsWith(str, prefix) ==
    Len(str) >= Len(prefix) /\ SubSeq(str, 1, Len(prefix)) = prefix

SeqToSet(q) == {q[i] : i \in 1..Len(q)}

CountOf(q, P(_)) == Cardinality({i \in 1..Len(q) : P(q[i])})

DeclaredType(def) == IF HasKind(def, "type", "str") THEN def.type.s ELSE "string"

JoinPath(prefix, name) == IF prefix = "" THEN name ELSE prefix \o "." \o name

\* path is the field at p, or lies beneath it
Under(path, p) ==
    path = p \/ StartsWith(path, p \o ".") \/ StartsWith(path, p \o "[")

PropsOf(def) == IF HasKind(def, "properties", "obj") THEN def.properties.o ELSE EmptyMap

ChildDef(def, n) ==
    IF n \in DOMAIN PropsOf(def) /\ PropsOf(def)[n].kind = "obj"
    THEN PropsOf(def)[n].o
    ELSE EmptyMap

ItemsDef(def) == IF HasKind(def, "items", "obj") THEN def.items.o ELSE EmptyMap

ElemPath(path, i) == path \o "[" \o ToString(i - 1) \o "]"

\* Every field of value v (whose definition is def), at any depth: its
\* dot-joined path, its value and whether the properties mapping of its level
\* declares its name.
RECURSIVE FieldsOf(_, _, _)
FieldsOf(v, path, def) ==
    CASE v.kind = "obj" ->
           UNION {{[path |-> JoinPath(path, n), value |-> v.o[n],
                    declared |-> n \in DOMAIN PropsOf(def)]}
                  \cup FieldsOf(v.o[n], JoinPath(path, n), ChildDef(def, n))
                 : n \in DOMAIN v.o}
      [] v.kind = "arr" ->
           UNION {FieldsOf(v.a[i], ElemPath(path, i), ItemsDef(def)) : i \in 1..Len(v.a)}
      [] OTHER -> {}

\* the schema root seen as the definition of the content object
RootDef == [type |-> S("object"), properties |-> O(schema.Properties)]

ContentFields == FieldsOf(content, "", RootDef)

\* Every field and every array element of v, at any depth, with its path
RECURSIVE Locations(_, _)
Locations(v, path) ==
    CASE v.kind = "obj" ->
           UNION {{[path |-> JoinPath(path, n), value |-> v.o[n]]}
                  \cup Locations(v.o[n], JoinPath(path, n)) : n \in DOMAIN v.o}
      [] v.kind = "arr" ->
           UNION {{[path |-> ElemPath(path, i), value |-> v.a[i]]}
                  \cup Locations(v.a[i], ElemPath(path, i)) : i \in 1..Len(v.a)}
      [] OTHER -> {}

\* The values the validator checks against a definition: the declared fields
\* of the content and the elements of declared arrays, each with its path.
RECURSIVE Checked(_, _, _)
Checked(value, def, path) ==
    {[path |-> path, value |-> value, def |-> def]}
    \cup (IF /\ DeclaredType(def) = "object" /\ value.kind = "obj"
             /\ HasKind(def, "properties", "obj")
          THEN UNION {Checked(value.o[n], def.properties.o[n].o, JoinPath(path, n))
                     : n \in {m \in DOMAIN value.o :
                                 /\ m \in DOMAIN def.properties.o
                                 /\ def.properties.o[m].kind = "obj"}}
          ELSE {})
    \cup (IF /\ DeclaredType(def) = "array" /\ value.kind = "arr"
             /\ HasKind(def, "items", "obj")
          THEN UNION {Checked(value.a[i], def.items.o,
                              path \o "[" \o ToString(i - 1) \o "]")
                     : i \in 1..Len(value.a)}
          ELSE {})

\* the checked values of the whole content object
CheckedInContent ==
    IF content.kind = "obj"
    THEN UNION {Checked(content.o[n], schema.Properties[n].o, n)
               : n \in {m \in DOMAIN content.o :
                           /\ m \in DOMAIN schema.Properties
                           /\ schema.Properties[m].kind = "obj"}}
    ELSE {}

ContentValidated ==
    op = "ValidateContent" /\ ~crashed /\ schema.Type = "object" /\ content.kind = "obj"

\* ValidateFieldValue ran on a field the schema declares
FieldValidated ==
    /\ op = "ValidateFieldValue"
    /\ fieldName \in DOMAIN schema.Properties
    /\ schema.Properties[fieldName].kind = "obj"

FieldDef == schema.Properties[fieldName].o

HasError(code) == \E i \in 1..Len(result.Errors) : result.Errors[i].Code = code

HasErrorAt(code, path) ==
    \E i \in 1..Len(result.Errors) :
        result.Errors[i].Code = code /\ result.Errors[i].PropertyPath = path

CountErrorsAt(code, path) ==
    Cardinality({i \in 1..Len(result.Errors) :
                    result.Errors[i].Code = code /\ result.Errors[i].PropertyPath = path})

\* the values checked by the call whose outcome the state holds
CheckedNow ==
    IF ContentValidated THEN CheckedInContent
    ELSE IF FieldValidated THEN Checked(fieldValue, FieldDef, fieldName)
    ELSE {}

ErrorsUnder(p) ==
    {i \in 1..Len(result.Errors) : Under(result.Errors[i].PropertyPath, p)}

-----------------------------------------------------------------------------
(* C1: ValidateContent and ValidateFieldValue always return a              *)
(* ValidationResult; no schema and content value makes them panic.         *)
C1_NeverPanics == ~crashed

(* C2: when a value fails the type check against its declared type, the    *)
(* validator records exactly one error for that field, with code           *)
(* invalid_type, and no other error or warning for the field or anything   *)
(* beneath it.                                                             *)
C2_TypeMismatchSkipsOtherChecks ==
    /\ FieldValidated /\ ~validateType(fieldValue, DeclaredType(FieldDef))
          => /\ Len(result.Errors) = 1
             /\ result.Errors[1].Code = "invalid_type"
             /\ result.Errors[1].PropertyPath = fieldName
             /\ result.Warnings = <<>>
    /\ ContentValidated
          => \A c \in CheckedInContent :
                ~validateType(c.value, DeclaredType(c.def))
                   => /\ Cardinality(ErrorsUnder(c.path)) = 1
                      /\ \A i \in ErrorsUnder(c.path) :
                            /\ result.Errors[i].Code = "invalid_type"
                            /\ result.Errors[i].PropertyPath = c.path
                      /\ \A i \in 1..Len(result.Warnings) :
                            ~Under(result.Warnings[i].Field, c.path)

\* a mistyped value of a property that also declares an enum has been validated
C2_Witness ==
    /\ ContentValidated
    /\ \E c \in CheckedInContent :
          /\ ~validateType(c.value, DeclaredType(c.def))
          /\ "enum" \in DOMAIN c.def

\* the content with the fields no properties mapping declares taken out
RECURSIVE StripUndeclared(_, _)
StripUndeclared(v, def) ==
    IF v.kind = "obj"
    THEN O([n \in DOMAIN v.o \cap DOMAIN PropsOf(def) |->
              IF DeclaredType(ChildDef(def, n)) = "object"
              THEN StripUndeclared(v.o[n], ChildDef(def, n))
              ELSE v.o[n]])
    ELSE v

\* Code and path of the errors, in order, leaving out the enum comparison of
\* a whole object (which compares the object with all the fields it holds)
FieldErrors(errors) ==
    LET kept == SelectSeq(errors, LAMBDA e : ~(e.Code = "enum" /\ e.Value.kind = "obj"))
    IN  [i \in 1..Len(kept) |-> <<kept[i].Code, kept[i].PropertyPath>>]

JSONTypes == {"string", "number", "integer", "boolean", "array", "object"}

\* the JSON kind of v is the declared type t
KindMatches(v, t) ==
    CASE t = "string" -> v.kind = "str"
      [] t = "number" -> v.kind = "num"
      [] t = "integer" -> v.kind = "num" /\ v.h % 2 = 0
      [] t = "boolean" -> v.kind = "bool"
      [] t = "array" -> v.kind = "arr"
      [] t = "object" -> v.kind = "obj"

Unsigned(str) ==
    IF Len(str) > 0 /\ Ch(str, 1) \in {"+", "-"} THEN SubSeq(str, 2, Len(str)) ELSE str

\* str is decimal text: an optional sign, digits, at most one point
IsDecimalText(str) ==
    LET body == Unsigned(str)
    IN  /\ AllIn(body, Digits \cup {"."})
        /\ Cardinality({i \in 1..Len(body) : Ch(body, i) = "."}) <= 1
        /\ \E i \in 1..Len(body) : Ch(body, i) \in Digits

\* decimal text with a fractional part that is not zero
HasFraction(str) ==
    LET body == Unsigned(str)
    IN  \E i \in 1..Len(body) :
           Ch(body, i) = "." /\ \E j \in (i + 1)..Len(body) : Ch(body, j) # "0"

\* the checked values the type claim speaks of
TypedNow == {c \in CheckedNow : c.value.kind # "null" /\ DeclaredType(c.def) \in JSONTypes}

(* C4 as stated: the type check accepts a non-null value only when its     *)
(* JSON kind equals the declared type (a number without fractional part    *)
(* for integer); any other combination yields invalid_type, and a JSON     *)
(* string is never accepted for number or integer.                         *)
C4_AcceptsOnlyMatchingKind ==
    \A c \in TypedNow :
       HasErrorAt("invalid_type", c.path) <=> ~KindMatches(c.value, DeclaredType(c.def))

(* C4, amended: the type check accepts a non-null value exactly when its   *)
(* JSON kind equals the declared type, or the declared type is number or   *)
(* integer and the value is a string holding decimal text (for integer:    *)
(* with no fractional part); every other combination yields invalid_type.  *)
C4_AcceptsKindOrNumericText ==
    \A c \in TypedNow :
       LET t == DeclaredType(c.def)
           numericText == /\ t \in {"number", "integer"}
                          /\ c.value.kind = "str"
                          /\ IsDecimalText(c.value.s)
                          /\ (t = "integer" => ~HasFraction(c.value.s))
       IN  /\ HasErrorAt("invalid_type", c.path)
                <=> ~(KindMatches(c.value, t) \/ numericText)
           /\ CountErrorsAt("invalid_type", c.path) <= 1

\* the string "1" was validated as an integer and accepted
C4_Witness ==
    /\ FieldValidated
    /\ DeclaredType(FieldDef) = "integer"
    /\ fieldValue = S("1")
    /\ ~HasError("invalid_type")

(* C5: for a string property with minLength m and maxLength M, a string of *)
(* length n yields a min_length error exactly when n < m, a max_length     *)
(* error exactly when n > M, and stays valid when m <= n <= M.             *)
C5_LengthBoundsInclusive ==
    /\ \A c \in CheckedNow :
          DeclaredType(c.def) = "string" /\ c.value.kind = "str"
             => LET n == Len(c.value.s)
                    tooShort == /\ HasKind(c.def, "minLength", "num")
                                /\ 2 * n < c.def.minLength.h
                    tooLong == /\ HasKind(c.def, "maxLength", "num")
                               /\ 2 * n > c.def.maxLength.h
                IN  /\ CountErrorsAt("min_length", c.path) = (IF tooShort THEN 1 ELSE 0)
                    /\ CountErrorsAt("max_length", c.path) = (IF tooLong THEN 1 ELSE 0)
    /\ /\ FieldValidated
       /\ DOMAIN FieldDef = {"type", "minLength", "maxLength"}
       /\ DeclaredType(FieldDef) = "string"
       /\ fieldValue.kind = "str"
       /\ FieldDef.minLength.h <= 2 * Len(fieldValue.s)
       /\ 2 * Len(fieldValue.s) <= FieldDef.maxLength.h
       => result.Valid /\ result.Errors = <<>>

\* a string whose length equals both bounds was validated and is valid
C5_Witness ==
    /\ FieldValidated
    /\ DOMAIN FieldDef = {"type", "minLength", "maxLength"}
    /\ fieldValue.kind = "str"
    /\ Len(fieldValue.s) >= 1
    /\ FieldDef.minLength = N(Len(fieldValue.s))
    /\ FieldDef.maxLength = N(Len(fieldValue.s))
    /\ result.Valid

(* C6: with uniqueItems true an array yields a unique_items error exactly  *)
(* when two of its elements render to the same display string, whatever    *)
(* their types: [1, "1"] holds a duplicate.                                *)
C6_UniqueItemsByDisplayString ==
    \A c \in CheckedNow :
       DeclaredType(c.def) = "array" /\ c.value.kind = "arr"
          => LET arr == c.value.a
                 unique == HasKind(c.def, "uniqueItems", "bool") /\ c.def.uniqueItems.b
                 clash == \E i, j \in 1..Len(arr) :
                             i < j /\ Sprintv(arr[i]) = Sprintv(arr[j])
             IN  CountErrorsAt("unique_items", c.path)
                    = (IF unique /\ clash THEN 1 ELSE 0)

\* the array [1, "1"] was validated under uniqueItems and reported
C6_Witness ==
    /\ FieldValidated
    /\ fieldValue = A(<<N(1), S("1")>>)
    /\ HasKind(FieldDef, "uniqueItems", "bool")
    /\ HasErrorAt("unique_items", fieldName)

ContentLocations == Locations(content, "")

\* the errors that carry the offending value itself
ValueCodes == {"invalid_type", "enum", "pattern", "format_email", "format_date",
               "format_datetime", "format_uri", "format_ipv4", "format_ipv6"}

\* the paths of the fields an object of the content lacks
MissingPaths ==
    {n \in AllNames : n \notin DOMAIN content.o}
    \cup UNION {{JoinPath(l.path, n) : n \in AllNames \ DOMAIN l.value.o}
               : l \in {x \in ContentLocations : x.value.kind = "obj"}}

(* C7: every error ValidateContent reports about a content field carries   *)
(* as propertyPath the dot-joined names from the content root down to the  *)
(* field, element i of an array contributing the suffix [i]; an invalid    *)
(* email under contact is reported at "contact.email".                     *)
C7_PropertyPathIsDotJoined ==
    ContentValidated =>
       \A i \in 1..Len(result.Errors) :
          LET e == result.Errors[i]
          IN  IF e.Code = "required"
              THEN e.PropertyPath \in MissingPaths
              ELSE \E l \in ContentLocations :
                      /\ l.path = e.PropertyPath
                      /\ (e.Code \in ValueCodes => l.value = e.Value)
                      /\ (e.Code \in {"min_length", "max_length"}
                            => l.value.kind = "str" /\ e.Value = N(Len(l.value.s)))
                      /\ (e.Code \in {"min_items", "max_items"}
                            => l.value.kind = "arr" /\ e.Value = N(Len(l.value.a)))
                      /\ (e.Code = "unique_items"
                            => l.value.kind = "arr"
                               /\ \E k \in 1..Len(l.value.a) : l.value.a[k] = e.Value)

\* an invalid email nested under contact and an invalid element of a nested
\* array were reported in one result
C7_Witness ==
    /\ ContentValidated
    /\ HasErrorAt("format_email", "contact.email")
    /\ HasErrorAt("format_email", "contact.tags[0]")

-----------------------------------------------------------------------------
(* Properties of the parser                                                *)

SchemaParsed == op = "ParseSchema"

\* the entries of the top-level properties mapping that are objects, and
\* those that are not
ObjectEntries == {n \in DOMAIN schema.Properties : schema.Properties[n].kind = "obj"}
NonObjectEntries == DOMAIN schema.Properties \ ObjectEntries

\* the rules of the analysis that speak about top-level entry n
RulesOf(n) ==
    {i \in 1..Len(analysis.ValidationRules) :
        LET path == analysis.ValidationRules[i].PropertyPath
        IN  path = n \/ StartsWith(path, n \o ".")}

(* C8: ParseSchema returns an error only when the schema is absent; for    *)
(* every present schema, also one whose properties mapping holds entries   *)
(* that are not objects, it succeeds, and each such entry is skipped: it   *)
(* is in none of the type map, the required list, the optional list, the   *)
(* property tree and the rule list.                                        *)
C8_ErrorOnlyWhenAbsentAndNonObjectsSkipped ==
    SchemaParsed =>
       /\ parseErr # "" => schema = NilSchema /\ analysis = NoAnalysis
       /\ schema # NilSchema =>
             /\ parseErr = ""
             /\ analysis # NoAnalysis
             /\ \A n \in NonObjectEntries :
                   /\ n \notin DOMAIN analysis.PropertyTypes
                   /\ n \notin SeqToSet(analysis.RequiredFields)
                   /\ n \notin SeqToSet(analysis.OptionalFields)
                   /\ n \notin DOMAIN analysis.Properties
                   /\ RulesOf(n) = {}

\* a schema whose mapping holds a string under title and a required list
\* next to two object entries was parsed
C8_Witness ==
    /\ SchemaParsed
    /\ schema # NilSchema
    /\ parseErr = ""
    /\ HasKind(schema.Properties, "title", "str")
    /\ HasKind(schema.Properties, "required", "arr")
    /\ DOMAIN analysis.PropertyTypes = {"contact", "tags"}

\* C9 as stated: the count and the type map cover every entry of the
\* top-level properties mapping
C9_TotalPropertiesIsEntryCount ==
    SchemaParsed /\ schema # NilSchema =>
       /\ analysis.TotalProperties = Cardinality(DOMAIN schema.Properties)
       /\ Cardinality(DOMAIN analysis.PropertyTypes) = Cardinality(DOMAIN schema.Properties)

(* C9 (amended): for every schema whose top-level properties mapping has N *)
(* entries that are objects, ParseSchema returns TotalProperties = N and a *)
(* PropertyTypes map whose keys are exactly the names of those N entries;  *)
(* entries that are not objects (a required list among them) are not       *)
(* counted.                                                                *)
C9_TotalPropertiesIsObjectEntryCount ==
    SchemaParsed /\ schema # NilSchema =>
       /\ analysis.TotalProperties = Cardinality(ObjectEntries)
       /\ DOMAIN analysis.PropertyTypes = ObjectEntries

\* a mapping of three entries, one of them the required list, was parsed
\* and two properties were counted
C9_Witness ==
    /\ SchemaParsed
    /\ schema # NilSchema
    /\ Cardinality(DOMAIN schema.Properties) = 3
    /\ HasKind(schema.Properties, "required", "arr")
    /\ analysis.TotalProperties = 2

-----------------------------------------------------------------------------
(* Properties of the form generator                                        *)

FormGenerated == op = "GenerateForm" /\ schema # NilSchema

\* the property definition a descriptor path names in the schema
RECURSIVE DefAtParts(_, _)
DefAtParts(properties, parts) ==
    IF Len(parts) = 1 THEN properties[parts[1]].o
    ELSE DefAtParts(properties[parts[1]].o["properties"].o, Tail(parts))

DefAt(path) == DefAtParts(schema.Properties, Split(path, "."))

\* a string- or number-typed property that declares a list of enum values
DeclaresEnum(def) ==
    /\ HasKind(def, "type", "str")
    /\ def["type"].s \in {"string", "number"}
    /\ HasKind(def, "enum", "arr")

RenderedEnum(def) == [i \in 1..Len(def["enum"].a) |-> Sprintv(def["enum"].a[i])]

(* C10: every string- or number-typed property that declares enum yields  *)
(* a descriptor with uiType select and options equal to the enum values    *)
(* rendered as strings in order, whatever its format, title or description *)
(* contain.                                                                *)
C10_EnumYieldsSelect ==
    FormGenerated =>
       /\ \A n \in ObjectEntries :
             \E i \in 1..Len(form.Fields) : form.Fields[i].Name = n
       /\ \A i \in 1..Len(form.Fields) :
             LET f == form.Fields[i]
                 def == DefAt(f.Name)
             IN  DeclaresEnum(def) =>
                    f.Type = "select" /\ f.Options = RenderedEnum(def)

\* an array property whose items are strings with a list of enum values
IsEnumStringArray(def) ==
    /\ HasKind(def, "items", "obj")
    /\ HasKind(def["items"].o, "type", "str")
    /\ def["items"].o["type"].s = "string"
    /\ HasKind(def["items"].o, "enum", "arr")

\* the item type an array property declares, "" when it declares none
DeclaredItemType(def) ==
    IF HasKind(def, "items", "obj") /\ HasKind(def["items"].o, "type", "str")
    THEN def["items"].o["type"].s ELSE ""

(* C11: an array property whose items have type string and declare enum   *)
(* yields a descriptor with uiType multiselect and options equal to the    *)
(* items' enum values in order; every other array property yields uiType   *)
(* array with format set to the declared item type.                        *)
C11_ArrayYieldsMultiselectOrArray ==
    FormGenerated =>
       \A i \in 1..Len(form.Fields) :
          LET f == form.Fields[i]
              def == DefAt(f.Name)
          IN  HasKind(def, "type", "str") /\ def["type"].s = "array" =>
                 IF IsEnumStringArray(def)
                 THEN /\ f.Type = "multiselect"
                      /\ f.Options = [k \in 1..Len(def["items"].o["enum"].a) |->
                                         Sprintv(def["items"].o["enum"].a[k])]
                 ELSE /\ f.Type = "array"
                      /\ f.Format = DeclaredItemType(def)

\* the descriptors in the order generateFormFields appends them
GenerationOrder == generateFormFields("", schema.Properties, FALSE, <<>>).fields

\* the priority of a descriptor path as the ordering rule states it
PathPriority(path) ==
    IF path = "title" THEN 1
    ELSE IF path = "description" THEN 2
    ELSE IF \A i \in 1..Len(path) : Ch(path, i) # "." THEN 10
    ELSE 100 + 10 * Cardinality({i \in 1..Len(path) : Ch(path, i) = "."})

\* the priorities in ascending order, for paths of up to three dots
PriorityLevels == <<1, 2, 10, 110, 120, 130>>

\* a stable sort by priority: the descriptors of each priority in turn,
\* each group in the order of the list
RECURSIVE StableByPriority(_, _)
StableByPriority(fields, levels) ==
    IF levels = <<>> THEN <<>>
    ELSE SelectSeq(fields, LAMBDA f : PathPriority(f.Name) = Head(levels))
         \o StableByPriority(fields, Tail(levels))

(* C12: the descriptor list returned by GenerateForm is the list in        *)
(* generation order stably sorted by priority (1 for title, 2 for          *)
(* description, 10 for another path without a dot, 100 + 10 x dots for a   *)
(* dotted path): priorities never decrease along the output and            *)
(* descriptors of equal priority keep their generation order.              *)
C12_FieldsStablySortedByPriority ==
    FormGenerated =>
       /\ \A i \in 1..(Len(form.Fields) - 1) :
             PathPriority(form.Fields[i].Name) <= PathPriority(form.Fields[i + 1].Name)
       /\ form.Fields = StableByPriority(GenerationOrder, PriorityLevels)

\* the registry a first call of GenerateForm on a new generator leaves
FirstCallRegistry == generateFormFields("", schema.Properties, FALSE, <<>>).imageFields

(* C13: nothing accumulates across calls of GenerateForm: after any number *)
(* of calls on one generator and an unchanged schema, the image-field      *)
(* registry GetImageFields returns is the one the first call left.         *)
C13_RegistrySameAfterEveryCall ==
    FormGenerated => imageFields = FirstCallRegistry

-----------------------------------------------------------------------------
(* Further properties of the validator                                     *)

ErrorCodes ==
    {"invalid_type", "required", "min_length", "max_length", "minimum", "maximum",
     "exclusive_minimum", "exclusive_maximum", "multiple_of", "min_items",
     "max_items", "unique_items", "enum", "pattern", "format_email", "format_date",
     "format_datetime", "format_uri", "format_ipv4", "format_ipv6"}

WarningCodes == {"additional_property", "unknown_field", "invalid_pattern"}

HasWarning(code) == \E i \in 1..Len(result.Warnings) : result.Warnings[i].Code = code

RECURSIVE ResolvesIn(_, _)
ResolvesIn(properties, parts) ==
    /\ HasKind(properties, parts[1], "obj")
    /\ \/ Len(parts) = 1
       \/ /\ HasKind(properties[parts[1]].o, "properties", "obj")
          /\ ResolvesIn(properties[parts[1]].o["properties"].o, Tail(parts))

\* ValidateFieldValue ran on a non-empty string addressed by the dot path
\* of a nested property that declares format email
NestedEmailValidated ==
    /\ op = "ValidateFieldValue"
    /\ Contains(fieldName, ".")
    /\ ResolvesIn(schema.Properties, Split(fieldName, "."))
    /\ StringOf(DefAt(fieldName), "format") = "email"
    /\ fieldValue.kind = "str"
    /\ fieldValue.s # ""

(* C15: single-field validation of a nested field addressed by its dot     *)
(* path, such as contact.email, checks the value against that nested       *)
(* property's schema: a malformed email gives valid = false with a         *)
(* format_email error, a well-formed email gives valid = true.             *)
C15_NestedFieldCheckedByDotPath ==
    NestedEmailValidated =>
       IF isValidEmail(fieldValue.s)
       THEN result.Valid
       ELSE ~result.Valid /\ HasError("format_email")

\* the top-level property P carries the boolean flag required: true
FlaggedRequired(P) ==
    /\ P \in DOMAIN schema.Properties
    /\ schema.Properties[P].kind = "obj"
    /\ HasKind(schema.Properties[P].o, "required", "bool")
    /\ schema.Properties[P].o.required.b

\* the top-level property P carries a required-name array
ArrayRequired(P) ==
    /\ P \in DOMAIN schema.Properties
    /\ schema.Properties[P].kind = "obj"
    /\ HasKind(schema.Properties[P].o, "required", "arr")

NestedMissing ==
    UNION {{[path |-> JoinPath(c.path, r.s),
             times |-> CountOf(c.def.required.a, LAMBDA x : x = r)]
            : r \in {x \in SeqToSet(c.def.required.a) :
                        x.kind = "str" /\ x.s \notin DOMAIN c.value.o}}
          : c \in {x \in CheckedInContent :
                      /\ CountDots(x.path) >= 1
                      /\ DeclaredType(x.def) = "object"
                      /\ x.value.kind = "obj"
                      /\ HasKind(x.def, "required", "arr")}}

(* C20: for an object nested inside another object whose own required      *)
(* array names a child missing from its content, the result holds two      *)
(* required errors for that missing child.                                 *)
C20_NestedRequiredReportedTwice ==
    ContentValidated =>
       \A m \in NestedMissing : CountErrorsAt("required", m.path) = 2

(* C20, amended: for such an object the result holds one required error    *)
(* for the missing child per occurrence of its name in the required array; *)
(* the per-field walk visits only the keys the content has and reports     *)
(* nothing for a missing one.                                              *)
C20_NestedRequiredReportedOnce ==
    ContentValidated =>
       \A m \in NestedMissing : CountErrorsAt("required", m.path) = m.times

\* the object at contact.contact lacks the two children its required array
\* names and each was reported
C20_Witness ==
    /\ ContentValidated
    /\ Cardinality(NestedMissing) = 2
    /\ HasErrorAt("required", "contact.contact.email")
    /\ HasErrorAt("required", "contact.contact.title")

-----------------------------------------------------------------------------
(* Properties of the file storage                                          *)

\* the call the single caller made last, and how it ended
LastCall == calls[1]
WriteSucceeded == LastCall.pc = "return" /\ LastCall.call \in WriteCalls /\ LastCall.err = ""
RestoreSucceeded ==
    LastCall.pc = "return" /\ LastCall.call = "RestoreFromBackup" /\ LastCall.err = ""

\* a RestoreFromBackup made now succeeds, puts version back as the main file
\* and leaves the .bak as it is
RestoreWouldReturn(version) ==
    LET r == RestoreFromBackup(files)
    IN  /\ r.err = ""
        /\ Content(r.files, "main") = version
        /\ Content(r.files, "bak") = Content(files, "bak")

BothReturned == \A p \in Procs : calls[p].pc = "return"

(* C18: when two WriteJSONFile / WriteTextFile calls on the same filename  *)
(* interleave, the main file ends up holding the complete payload of one   *)
(* of the two calls, never a mixture or a truncated payload, and every     *)
(* call that returns success has had its own payload installed as the main *)
(* file at some point.                                                     *)
C18_ConcurrentWritesAtomic ==
    BothReturned =>
       /\ Content(files, "main") \in {<<calls[p].bytes>> : p \in Procs}
       /\ \A p \in Procs : calls[p].err = "" => calls[p].installed

-----------------------------------------------------------------------------
(* Properties of the session manager                                       *)

\* the latest call checked a session ID and accepted it
Accepted ==
    /\ authResult.call \in {"ValidateSession", "RequireAuth"}
    /\ authResult.err = ""

\* the latest call checked a session ID and rejected it
Rejected ==
    /\ authResult.call \in {"ValidateSession", "RequireAuth"}
    /\ authResult.err # ""

(* C17: a session ID is accepted by ValidateSession, and so by a route     *)
(* behind RequireAuth, only if a successful Login returned it, it has not  *)
(* since been logged out and its expiry time has not passed; an ID that    *)
(* was logged out, or rejected as expired, is rejected ever after.         *)
C17_AcceptedOnlyWhileLive ==
    /\ Accepted =>
          /\ authResult.id \in issued
          /\ authResult.id \notin revoked
          /\ Len(authResult.seen) = 1
          /\ authResult.at <= authResult.seen[1].ExpiresAt
          /\ authResult.call = "RequireAuth" => authResult.status = 200
    /\ (Rejected /\ authResult.call = "RequireAuth") => authResult.status = 401
    /\ \A id \in revoked : id \in issued /\ id \notin DOMAIN sessions

\* a request carrying an ID that had been logged out or had expired was
\* turned away while another session was still live
C17_Witness ==
    /\ authResult.call = "RequireAuth"
    /\ authResult.status = 401
    /\ authResult.id \in revoked
    /\ authResult.seen = <<>>
    /\ DOMAIN sessions # {}

-----------------------------------------------------------------------------
(* Further properties of the validator's results                           *)

CountWarningsAt(code, field) ==
    Cardinality({i \in 1..Len(result.Warnings) :
                    result.Warnings[i].Code = code /\ result.Warnings[i].Field = field})

CountWarnings(code) ==
    Cardinality({i \in 1..Len(result.Warnings) : result.Warnings[i].Code = code})

\* a string value that passed the type check of a definition whose pattern
\* is not a valid regular expression
PatternBroken(c) ==
    /\ c.value.kind = "str"
    /\ validateType(c.value, DeclaredType(c.def))
    /\ HasKind(c.def, "pattern", "str")
    /\ c.def.pattern.s # ""
    /\ ~RegexpCompiles(c.def.pattern.s)

(* C21: when a property's pattern is not a valid regular expression,       *)
(* validating a string value against it adds exactly one invalid_pattern   *)
(* warning, adds no pattern error, and leaves valid unchanged.             *)
C21_InvalidPatternIsOneWarning ==
    (ContentValidated \/ FieldValidated) =>
       /\ CountWarnings("invalid_pattern")
             = Cardinality({c \in CheckedNow : PatternBroken(c)})
       /\ \A c \in CheckedNow : PatternBroken(c) => ~HasErrorAt("pattern", c.path)
       /\ (result.Errors = <<>> => result.Valid)

\* a numeric text checked against the broken pattern of a number property
\* left the result valid with the one warning
C21_Witness ==
    /\ ContentValidated
    /\ \E c \in CheckedNow : PatternBroken(c) /\ DeclaredType(c.def) = "number"
    /\ CountWarnings("invalid_pattern") = 1
    /\ result.Valid

\* the objects ValidateContent validates as objects: the content root and
\* every object value that passed the type check of an object definition
WalkedObjects ==
    {[path |-> "", value |-> content, def |-> RootDef]}
    \cup {c \in CheckedInContent : DeclaredType(c.def) = "object" /\ c.value.kind = "obj"}

\* the fields of walked objects whose name the object's definition does not
\* declare, and whether that definition has a properties mapping at all
UndeclaredFields ==
    UNION {{[path |-> JoinPath(o.path, n), mapped |-> HasKind(o.def, "properties", "obj")]
            : n \in (DOMAIN o.value.o) \ DOMAIN PropsOf(o.def)}
          : o \in WalkedObjects}

(* C22: in ValidateContent every content field, at top level or inside a   *)
(* nested object, whose name is not declared in the corresponding schema   *)
(* properties produces exactly one additional_property warning whose field *)
(* is the field's dot-joined path.                                         *)
C22_UndeclaredFieldWarnedOnce ==
    ContentValidated =>
       \A f \in UndeclaredFields : CountWarningsAt("additional_property", f.path) = 1

\* what validateNestedObject does instead: the fields of an object whose
\* definition has no properties mapping are not looked at and produce no
\* warning; every other undeclared field produces exactly one
UndeclaredFieldWarnedOnceIfMapped ==
    ContentValidated =>
       /\ \A f \in UndeclaredFields :
             CountWarningsAt("additional_property", f.path) = IF f.mapped THEN 1 ELSE 0
       /\ CountWarnings("additional_property")
             = Cardinality({f \in UndeclaredFields : f.mapped})

\* an undeclared field at top level and one inside contact were each warned
\* about once
C22_Witness ==
    /\ ContentValidated
    /\ \E f \in UndeclaredFields : f.path = "extra" /\ f.mapped
    /\ \E f \in UndeclaredFields : f.path = "contact.extra" /\ f.mapped
    /\ CountWarnings("additional_property") = 2

(* C26: in every ValidationResult returned by ValidateContent, field_count *)
(* equals the number of errors plus the number of warnings.                *)
C26_FieldCountIsErrorsPlusWarnings ==
    (op = "ValidateContent" /\ ~crashed) =>
       result.FieldCount = Len(result.Errors) + Len(result.Warnings)

(* C28: in every ValidationResult returned by ValidateContent or           *)
(* ValidateFieldValue, valid is false exactly when the errors list is      *)
(* non-empty; warnings alone never make valid false.                       *)
C28_InvalidIffErrors ==
    (op \in {"ValidateContent", "ValidateFieldValue"} /\ ~crashed) =>
       (~result.Valid <=> result.Errors # <<>>)

\* a result with warnings and no error is valid
C28_Witness ==
    /\ op \in {"ValidateContent", "ValidateFieldValue"}
    /\ ~crashed
    /\ result.Warnings # <<>>
    /\ result.Errors = <<>>
    /\ result.Valid

-----------------------------------------------------------------------------
(* Further properties of the parser                                        *)

\* the names in the required array of the object node itself
OwnRequired(raw) ==
    IF HasKind(raw, "required", "arr")
    THEN SeqToSet(StringItems(raw["required"].a))
    ELSE {}

\* every child of the parsed object node pp, at every depth, is marked
\* required exactly when pp's own required array names it
RECURSIVE RequiredByOwnList(_)
RequiredByOwnList(pp) ==
    /\ pp.Properties # <<>> =>
          \A n \in DOMAIN pp.Properties[1] :
              /\ pp.Properties[1][n].Required <=> n \in OwnRequired(pp.Raw)
              /\ RequiredByOwnList(pp.Properties[1][n])
    /\ pp.Items # <<>> => RequiredByOwnList(pp.Items[1])

(* C23: a nested property is marked required exactly when its name is in   *)
(* the required list of the object node that directly encloses it; the     *)
(* root's or any other object's required list never determines it.         *)
C23_NestedRequiredFromEnclosingObject ==
    (op = "ParseSchema" /\ analysis # NoAnalysis) =>
       \A k \in DOMAIN analysis.Properties : RequiredByOwnList(analysis.Properties[k])

-----------------------------------------------------------------------------
(* Further properties of the form generator                                *)

\* the paths of the object-valued entries of a properties mapping and,
\* below every entry of declared type object with a properties mapping,
\* of its object-valued children, at every depth
RECURSIVE DescriptorPaths(_, _)
DescriptorPaths(prefix, properties) ==
    UNION {{JoinPath(prefix, k)}
           \cup (IF /\ DeclaredType(properties[k].o) = "object"
                    /\ HasKind(properties[k].o, "properties", "obj")
                 THEN DescriptorPaths(JoinPath(prefix, k),
                                      properties[k].o["properties"].o)
                 ELSE {})
          : k \in {n \in DOMAIN properties : properties[n].kind = "obj"}}

FieldsNamed(path) == {i \in 1..Len(form.Fields) : form.Fields[i].Name = path}

(* C24: for every property of declared type object that has a properties   *)
(* mapping, the generator emits, besides the object's own descriptor, one  *)
(* descriptor per object-valued child, named parent.child, in the same     *)
(* flat list, recursively at every nesting depth.                          *)
C24_ObjectChildrenEmitted ==
    FormGenerated =>
       \A path \in DescriptorPaths("", schema.Properties) :
          Cardinality(FieldsNamed(path)) = 1

\* a descriptor path with a dot names a nested field
IsNestedPath(path) == \E i \in 1..Len(path) : Ch(path, i) = "."

(* C25: a descriptor's label is the property's explicit title whenever one *)
(* is declared, for nested fields too, where only the two-space indent is  *)
(* put in front of it; without a title the label is derived from the final *)
(* dot-segment of the path (split on _, each token capitalised, joined     *)
(* with spaces).                                                           *)
C25_ExplicitTitleIsLabel ==
    FormGenerated =>
       \A i \in 1..Len(form.Fields) :
          LET f == form.Fields[i]
              def == DefAt(f.Name)
              indent == IF IsNestedPath(f.Name) THEN "  " ELSE ""
          IN  f.Label = indent \o (IF HasKind(def, "title", "str")
                                   THEN def["title"].s
                                   ELSE formatFieldLabel(f.Name))

\* the names of the emitted descriptors whose uiType is image
ImageDescriptors ==
    {form.Fields[i].Name : i \in {k \in 1..Len(form.Fields) : form.Fields[k].Type = "image"}}

(* C29: after one GenerateForm call on a new FormGenerator the image-field *)
(* registry is exactly the set of names of the emitted descriptors whose   *)
(* final uiType is image, each listed once.                                *)
C29_RegistryIsImageDescriptors ==
    (FormGenerated /\ imageFields = FirstCallRegistry) =>
       /\ SeqToSet(imageFields) = ImageDescriptors
       /\ \A i, j \in 1..Len(imageFields) : imageFields[i] = imageFields[j] => i = j

-----------------------------------------------------------------------------
(* Properties of SchemaParser.ValidateFieldValue                           *)

\* ValidateFieldValue has answered for a top-level field of the schema
ParserFieldValidated ==
    /\ op = "SchemaParser.ValidateFieldValue"
    /\ schema # NilSchema
    /\ fieldName \in DOMAIN schema.Properties
    /\ schema.Properties[fieldName].kind = "obj"

\* the rules of the field itself, in the order they are extracted
OwnRules ==
    SelectSeq(extractValidationRules(fieldName,
                  parseProperty(fieldName, schema.Properties[fieldName].o, "",
                                extractRequiredFields(schema.Properties)), ""),
              LAMBDA rule : rule.PropertyPath = fieldName)

\* the kind of JSON value each schema type names
KindOfType ==
    [string |-> "str", number |-> "num", integer |-> "num", boolean |-> "bool",
     array |-> "arr", object |-> "obj"]

\* fieldValue does not meet the rule.  A length rule is met by a string of
\* that length, a bound by a number within it, an enum by one of its
\* values, a type by a value of that JSON type or null, required by any
\* value but null and the empty string.
Violates(rule) ==
    CASE rule.Type = "required" -> fieldValue \in {Null, S("")}
      [] rule.Type = "type" ->
            /\ fieldValue # Null
            /\ rule.Value.s \in DOMAIN KindOfType
            /\ \/ fieldValue.kind # KindOfType[rule.Value.s]
               \/ rule.Value.s = "integer" /\ fieldValue.h % 2 # 0
      [] rule.Type = "minLength" ->
            ~(fieldValue.kind = "str" /\ Len(fieldValue.s) >= rule.Value.h \div 2)
      [] rule.Type = "maxLength" ->
            ~(fieldValue.kind = "str" /\ Len(fieldValue.s) <= rule.Value.h \div 2)
      [] rule.Type = "minimum" ->
            ~(fieldValue.kind = "num" /\ fieldValue.h >= rule.Value.h)
      [] rule.Type = "maximum" ->
            ~(fieldValue.kind = "num" /\ fieldValue.h <= rule.Value.h)
      [] rule.Type = "enum" -> fieldValue \notin SeqToSet(rule.Value.a)
      [] OTHER -> FALSE

(* C27: SchemaParser.ValidateFieldValue(field, value) for a top-level      *)
(* field returns exactly those rules of the field itself that the value    *)
(* violates; rules that belong to nested children or array items of the    *)
(* field are never evaluated against the field's own value.                *)
C27_OnlyOwnViolatedRules ==
    ParserFieldValidated =>
       failures = SelectSeq(OwnRules, Violates)

-----------------------------------------------------------------------------
(* Properties of the content manager                                       *)

\* UpdateContent returned an error on a content.json that existed
UpdateRejected ==
    /\ LastCall.pc = "return"
    /\ LastCall.call = "UpdateContent"
    /\ LastCall.err # ""
    /\ LastCall.before.main # <<>>

(* C30: if UpdateContent returns an error (an unknown key, a wrongly typed *)
(* value, or a failed validation such as an empty title) while             *)
(* content.json already exists, content.json and content.json.bak are left *)
(* exactly as they were before the call; no subset of the submitted        *)
(* updates is persisted.                                                   *)
C30_RejectedUpdateLeavesFiles ==
    UpdateRejected =>
       /\ Content(files, "main") = LastCall.before.main
       /\ Content(files, "bak") = LastCall.before.bak

\* an update with an empty title was rejected by the validation before
\* saving, on a content.json that had a backup
C30_Witness ==
    /\ UpdateRejected
    /\ LastCall.err = "content validation failed: title cannot be empty"
    /\ LastCall.before.bak # <<>>
    /\ Content(files, "main") = LastCall.before.main

====
